---- MODULE Spec2Model ----
(***************************************************************************)
(* A model of mcphub's OpenAPI presentation layer                          *)
(* (src/src/services/openApiGeneratorService.ts,                           *)
(* src/src/controllers/openApiController.ts, promptController.ts) and of   *)
(* its DAO configuration layer (DaoConfigService, configManager,           *)
(* JsonFileBaseDao).                                                       *)
(*                                                                         *)
(* JavaScript strings that the code concatenates or cuts (server names,    *)
(* tool names, paths, operation ids) are sequences of one-character        *)
(* strings, so that `${a}-${b}` is a \o <<"-">> \o b and not an opaque     *)
(* pair.                                                                   *)
(***************************************************************************)
EXTENDS Integers, Sequences, FiniteSets, TLC

VARIABLES
    serverInfos,   \* what getServersInfo() returns: a list of ServerInfo
    groups,        \* the groups groupService reads: a list of IGroup
    resp,          \* the response the last HTTP handler has sent
    store,         \* the settings file as DaoConfigService's DAOs read it
    daoResp,       \* what the last DaoConfigService call returned
    USE_DAO_LAYER, \* configManager's module constant, set when it is loaded
    processEnv,    \* process.env.USE_DAO_LAYER
    cfgResp,       \* the last configManager call and the path it took
    legacyResp,    \* what the last legacy loadSettings returned
    clock,         \* Date.now(), in milliseconds
    settingsFile,  \* the settings file of JsonFileBaseDao: contents and mtime
    daoCache,      \* per DAO instance: settingsCache and lastModified
    writes,        \* how many times the settings file has been written
    cacheResp,     \* what the last JsonFileBaseDao.loadSettings returned
    opResp,        \* the last call of a DAO method and what it returned
    convIn,        \* the arguments of convertQueryParametersToTypes
    convOut,       \* what convertQueryParametersToTypes returned
    discovery,     \* per server: the Supervisor's capability discovery
    provider,      \* the state, refs and requests of the ServerProvider
    httpRequest,   \* an HTTP request on its way through initMiddlewares
    groupDao       \* one GroupDaoImpl: its cache, the file, its running calls

apiVars == <<serverInfos, groups, resp>>
daoVars == <<store, daoResp>>
cfgVars == <<USE_DAO_LAYER, processEnv, cfgResp, legacyResp>>
cacheVars == <<clock, settingsFile, daoCache, writes, cacheResp>>
coreVars == <<apiVars, daoVars, cfgVars, cacheVars>>
opVars == <<opResp>>
convVars == <<convIn, convOut>>
supervisorVars == <<discovery>>
providerVars == <<provider>>
requestVars == <<httpRequest>>
groupCallVars == <<groupDao>>
extVars == <<opVars, convVars, supervisorVars, providerVars, requestVars,
             groupCallVars>>
notOpVars == <<convVars, supervisorVars, providerVars, requestVars,
               groupCallVars>>
notConvVars == <<opVars, supervisorVars, providerVars, requestVars,
                 groupCallVars>>
notSupervisorVars == <<opVars, convVars, providerVars, requestVars,
                       groupCallVars>>
notProviderVars == <<opVars, convVars, supervisorVars, requestVars,
                     groupCallVars>>
notRequestVars == <<opVars, convVars, supervisorVars, providerVars,
                    groupCallVars>>
notGroupCallVars == <<opVars, convVars, supervisorVars, providerVars,
                      requestVars>>
vars == <<serverInfos, groups, resp, store, daoResp, USE_DAO_LAYER, processEnv,
          cfgResp, legacyResp, clock, settingsFile, daoCache, writes, cacheResp,
          opResp, convIn, convOut, discovery, provider, httpRequest, groupDao>>

-----------------------------------------------------------------------------
(* Names.  ServerA-ServerAB and ToolBC-ToolC are chosen so that the two    *)
(* pairs (a, b-c) and (a-b, c) exist.                                      *)

ServerA  == <<"a">>
ServerAB == <<"a", "-", "b">>
ServerZ  == <<"z">>          \* a name no server is declared under
ToolC    == <<"c">>
ToolBC   == <<"b", "-", "c">>
ToolQ    == <<"q">>          \* a tool no server declares
GroupG   == <<"g">>
GroupN   == <<"n">>          \* a name no group has

DeclaredServers == <<ServerA, ServerAB>>

\* the local tool names each upstream server can declare, in declaration order
UpstreamTools(serverName) ==
    IF serverName = ServerA THEN <<ToolBC, ToolC>> ELSE <<ToolC>>

\* ToolBC takes an object argument (request body, POST); ToolC only primitives
HasComplexTypes(localName) == localName = ToolBC

-----------------------------------------------------------------------------
(* Helpers over sequences and maps (Array.prototype.includes, Map.set).     *)

Range(s) == {s[i] : i \in 1..Len(s)}

Includes(s, x) == \E i \in 1..Len(s) : s[i] = x

\* s starts with p at position i
MatchAt(s, p, i) ==
    /\ i + Len(p) - 1 <= Len(s)
    /\ \A k \in 1..Len(p) : s[i + k - 1] = p[k]

\* String.prototype.replace(p, ''): the first occurrence of p is removed
Replace(s, p) ==
    IF \E i \in 1..Len(s) : MatchAt(s, p, i)
    THEN LET i == CHOOSE j \in 1..Len(s) :
                     /\ MatchAt(s, p, j)
                     /\ \A k \in 1..(j - 1) : ~MatchAt(s, p, k)
         IN  SubSeq(s, 1, i - 1) \o SubSeq(s, i + Len(p), Len(s))
    ELSE s

\* Map.prototype.set / obj[k] = v: k is added, or its value replaced
MapSet(m, k, v) == [x \in (DOMAIN m) \cup {k} |-> IF x = k THEN v ELSE m[x]]

EmptyMap == [x \in {} |-> {}]

-----------------------------------------------------------------------------
(* The naming scheme.                                                      *)

\* `${serverName}-${toolName}`: the name a tool carries in ServerInfo.tools
NamespacedKey(serverName, toolName) == serverName \o <<"-">> \o toolName

\* `/tools/${serverName}/${tool.name}`
PathName(serverName, toolName) ==
    <<"/", "t", "o", "o", "l", "s", "/">> \o serverName \o <<"/">> \o toolName

\* `${serverName}_${tool.name}`
OperationId(serverName, toolName) == serverName \o <<"_">> \o toolName

-----------------------------------------------------------------------------
(* generateOpenAPISpec                                                     *)

\* OpenAPIGenerationOptions; an absent serverFilter is [def |-> FALSE], an
\* absent groupFilter is the empty string (both are falsy in the code)
NoServerFilter == [def |-> FALSE, val |-> << >>]
ServerFilter(names) == [def |-> TRUE, val |-> names]
NoOptions ==
    [includeDisabledTools |-> FALSE, groupFilter |-> << >>,
     serverFilter |-> NoServerFilter]

\* convertToolSchemaToOpenAPI, as far as the method of the path goes: a
\* request body is produced for a schema with complex property types
HasRequestBody(tool) == tool.complex

generateOperationFromTool(tool, serverName) ==
    [operationId |-> OperationId(serverName, tool.name),
     tags        |-> <<serverName>>]

\* groups.find(g => g.id === key || g.name === key); << >> when there is none
getGroupByIdOrName(key) ==
    LET hits == SelectSeq(groups, LAMBDA g : g.id = key \/ g.name = key)
    IN  IF hits = << >> THEN << >> ELSE <<Head(hits)>>

\* a group member is a bare server name or {name, tools}
MemberName(member) == member.name
MemberAllowed(member) ==
    IF member.bare THEN [all |-> TRUE, list |-> << >>]
    ELSE IF member.tools.kind = "list"
         THEN [all |-> FALSE, list |-> member.tools.list]
         ELSE [all |-> TRUE, list |-> << >>]      \* server.tools || 'all'

\* for (const server of group.servers) groupConfig.set(name, tools)
RECURSIVE BuildGroupConfig(_, _)
BuildGroupConfig(groupConfig, members) ==
    IF members = << >> THEN groupConfig
    ELSE BuildGroupConfig(
             MapSet(groupConfig, MemberName(Head(members)),
                    MemberAllowed(Head(members))),
             Tail(members))

\* FilterByStatusAndNames without the status test
FilterByNamesOnly(infos, options) ==
    SelectSeq(infos, LAMBDA server :
        ~options.serverFilter.def
          \/ Includes(options.serverFilter.val, server.name))

\* serverInfos.filter(status === 'connected' && (!serverFilter || includes))
FilterByStatusAndNames(infos, options) ==
    SelectSeq(infos, LAMBDA server :
        /\ server.status = "connected"
        /\ (~options.serverFilter.def
              \/ Includes(options.serverFilter.val, server.name)))

\* the servers left after the group filter
FilterByGroup(filteredServers, options) ==
    IF options.groupFilter = << >> THEN filteredServers
    ELSE LET found == getGroupByIdOrName(options.groupFilter)
         IN  IF found = << >> THEN << >>
             ELSE LET groupConfig ==
                          BuildGroupConfig(EmptyMap, found[1].servers)
                  IN  SelectSeq(filteredServers, LAMBDA server :
                          server.name \in DOMAIN groupConfig)

GroupConfigOf(options) ==
    IF options.groupFilter = << >> THEN EmptyMap
    ELSE LET found == getGroupByIdOrName(options.groupFilter)
         IN  IF found = << >> THEN EmptyMap
             ELSE BuildGroupConfig(EmptyMap, found[1].servers)

\* EnabledFilter that lets every tool through
EnabledFilterOff(tool, options) == TRUE

\* tool.enabled !== false, unless includeDisabledTools
EnabledFilter(tool, options) ==
    options.includeDisabledTools \/ tool.enabled # FALSE

\* FilteredTools without the group's allow-list
FilteredToolsNoAllowList(serverInfo, options, groupConfig) ==
    SelectSeq(serverInfo.tools, LAMBDA tool : EnabledFilter(tool, options))

\* the tools of one server that pass the enabled and the group filter
FilteredTools(serverInfo, options, groupConfig) ==
    LET tools == SelectSeq(serverInfo.tools,
                           LAMBDA tool : EnabledFilter(tool, options))
    IN  IF options.groupFilter # << >> /\ serverInfo.name \in DOMAIN groupConfig
        THEN LET allowedTools == groupConfig[serverInfo.name]
             IN  IF allowedTools.all THEN tools
                 ELSE SelectSeq(tools, LAMBDA tool :
                          Includes(allowedTools.list,
                                   Replace(tool.name,
                                           serverInfo.name \o <<"-">>)))
        ELSE tools

\* allTools: {tool, serverName} for every filtered tool of every server
RECURSIVE CollectTools(_, _, _)
CollectTools(filteredServers, options, groupConfig) ==
    IF filteredServers = << >> THEN << >>
    ELSE LET serverInfo == Head(filteredServers)
             mine == FilteredTools(serverInfo, options, groupConfig)
         IN  [i \in 1..Len(mine) |->
                 [tool |-> mine[i], serverName |-> serverInfo.name]]
             \o CollectTools(Tail(filteredServers), options, groupConfig)

\* paths[pathName][method] = operation, for each collected tool in order
RECURSIVE BuildPaths(_, _)
BuildPaths(paths, allTools) ==
    IF allTools = << >> THEN paths
    ELSE LET e == Head(allTools)
             pathName == PathName(e.serverName, e.tool.name)
             method == IF HasRequestBody(e.tool) THEN "post" ELSE "get"
             item == IF pathName \in DOMAIN paths THEN paths[pathName]
                     ELSE EmptyMap
         IN  BuildPaths(
                 MapSet(paths, pathName,
                        MapSet(item, method,
                               generateOperationFromTool(e.tool, e.serverName))),
                 Tail(allTools))

generateOpenAPISpec(options) ==
    LET filteredServers ==
            FilterByGroup(FilterByStatusAndNames(serverInfos, options), options)
        allTools == CollectTools(filteredServers, options, GroupConfigOf(options))
    IN  [paths |-> BuildPaths(EmptyMap, allTools),
         tags  |-> [i \in 1..Len(filteredServers) |-> filteredServers[i].name]]

\* serverInfos.filter(connected).map(name)
getAvailableServers ==
    LET up == SelectSeq(serverInfos, LAMBDA server : server.status = "connected")
    IN  [i \in 1..Len(up) |-> up[i].name]

-----------------------------------------------------------------------------
(* Bounds and the inputs the handlers are called with.                     *)

MaxMembers == 2      \* the longest group.servers list

Bare(n) == [bare |-> TRUE, name |-> n, tools |-> [kind |-> "undef", list |-> << >>]]
Obj(n, kind, list) == [bare |-> FALSE, name |-> n, tools |-> [kind |-> kind, list |-> list]]

MemberChoices ==
    { Bare(ServerA), Bare(ServerZ),
      Obj(ServerA, "list", <<ToolBC>>),
      Obj(ServerAB, "list", <<ToolC, ToolQ>>),
      Obj(ServerAB, "all", << >>),
      Obj(ServerA, "undef", << >>) }

\* the lists updateServers is called with: the current list with one more
\* member, or the empty list
NextMemberLists(current) ==
    {<< >>} \cup {Append(current, m) : m \in {x \in MemberChoices : Len(current) < MaxMembers}}

OptionChoices ==
    { [includeDisabledTools |-> d, groupFilter |-> g, serverFilter |-> NoServerFilter] :
          d \in BOOLEAN, g \in {<< >>, GroupG, GroupN} }
    \cup
    { [includeDisabledTools |-> d, groupFilter |-> g,
       serverFilter |-> ServerFilter(<<ServerA>>)] :
          d \in {FALSE}, g \in {<< >>, GroupG} }

NoDoc == [paths |-> EmptyMap, tags |-> << >>]
\* the body of a tool or prompt response: the fields a client can read
NoBody == [isError |-> FALSE, kind |-> "none", error |-> "", message |-> ""]

\* cause and forwarded are not part of the response: they record what the
\* dispatcher found and whether it sent the call to the upstream server
NoResponse ==
    [handler |-> "none", status |-> 0, options |-> NoOptions, name |-> << >>,
     doc |-> NoDoc, data |-> << >>, tool |-> << >>, body |-> NoBody,
     cause |-> "none", forwarded |-> FALSE]

-----------------------------------------------------------------------------
(* The registry: connection lifecycle, discovery and the enabled toggle.   *)

ServerIndex == 1..Len(DeclaredServers)

Discovered(serverName, declared) ==
    LET locals == SelectSeq(UpstreamTools(serverName), LAMBDA l : l \in declared)
    IN  [i \in 1..Len(locals) |->
            [name    |-> NamespacedKey(serverName, locals[i]),
             enabled |-> TRUE,
             complex |-> HasComplexTypes(locals[i])]]

\* a server connects and its tool list is discovered
Connect(i, declared) ==
    /\ serverInfos[i].status # "connected"
    /\ serverInfos' = [serverInfos EXCEPT
                          ![i].status = "connected",
                          ![i].tools = Discovered(serverInfos[i].name, declared)]
    /\ resp' = NoResponse
    /\ UNCHANGED <<groups, daoVars, cfgVars, cacheVars, extVars>>

\* a server loses its connection; its last known tools stay in ServerInfo
Disconnect(i) ==
    /\ serverInfos[i].status = "connected"
    /\ serverInfos' = [serverInfos EXCEPT ![i].status = "disconnected"]
    /\ resp' = NoResponse
    /\ UNCHANGED <<groups, daoVars, cfgVars, cacheVars, extVars>>

\* the administrative toggle of one tool
SetToolEnabled(i, p, enabled) ==
    /\ p \in 1..Len(serverInfos[i].tools)
    /\ serverInfos' = [serverInfos EXCEPT ![i].tools[p].enabled = enabled]
    /\ resp' = NoResponse
    /\ UNCHANGED <<groups, daoVars, cfgVars, cacheVars, extVars>>

\* GroupDao.updateServers: the member list of the group is replaced
UpdateServers(gi, servers) ==
    /\ groups' = [groups EXCEPT ![gi].servers = servers]
    /\ resp' = NoResponse
    /\ UNCHANGED <<serverInfos, daoVars, cfgVars, cacheVars, extVars>>

-----------------------------------------------------------------------------
(* The handlers of openApiController.                                      *)

\* GET /api/openapi.json
GetOpenAPISpec(options) ==
    /\ resp' = [NoResponse EXCEPT
                   !.handler = "getOpenAPISpec", !.status = 200,
                   !.options = options, !.doc = generateOpenAPISpec(options)]
    /\ UNCHANGED <<serverInfos, groups, daoVars, cfgVars, cacheVars, extVars>>

\* GET /api/openapi/servers
GetOpenAPIServers ==
    /\ resp' = [NoResponse EXCEPT
                   !.handler = "getOpenAPIServers", !.status = 200,
                   !.data = getAvailableServers]
    /\ UNCHANGED <<serverInfos, groups, daoVars, cfgVars, cacheVars, extVars>>

\* getServerOpenAPISpec: the response it sends
getServerOpenAPISpec(name, includeDisabled) ==
    LET options == [includeDisabledTools |-> includeDisabled,
                    groupFilter |-> << >>,
                    serverFilter |-> ServerFilter(<<name>>)]
    IN  IF ~Includes(getAvailableServers, name)
        THEN [NoResponse EXCEPT
                 !.handler = "getServerOpenAPISpec", !.status = 404,
                 !.name = name]
        ELSE [NoResponse EXCEPT
                 !.handler = "getServerOpenAPISpec", !.status = 200,
                 !.name = name, !.options = options,
                 !.doc = generateOpenAPISpec(options)]

\* GET /api/openapi/:name.json
GetServerOpenAPISpec(name, includeDisabled) ==
    /\ resp' = getServerOpenAPISpec(name, includeDisabled)
    /\ UNCHANGED <<serverInfos, groups, daoVars, cfgVars, cacheVars, extVars>>

-----------------------------------------------------------------------------
(* The configuration layer: the settings file and its entities.  A field   *)
(* the JSON leaves out is Undefined; an optional section of a submitted    *)
(* settings object is [def, val].                                          *)

Undefined == "undefined"

Alice == "alice"
Bob == "bob"
AdminName == "admin"

User(username, isAdmin, password) ==
    [username |-> username, isAdmin |-> isAdmin, password |-> password]
\* enabled is "true", "false" or Undefined (the key is absent)
Server(name, owner, command) ==
    [name |-> name, owner |-> owner, command |-> command,
     enabled |-> Undefined]
Group(id, name, owner, servers) ==
    [id |-> id, name |-> name, owner |-> owner, servers |-> servers]
Cfg(value) == [k \in {"theme"} |-> value]

Absent == [def |-> FALSE, val |-> << >>]
Some(v) == [def |-> TRUE, val |-> v]

\* the caller of loadSettings/saveSettings: user?: IUser
NoUser == [def |-> FALSE, username |-> Undefined, isAdmin |-> FALSE]
AliceUser == [def |-> TRUE, username |-> Alice, isAdmin |-> FALSE]
AdminUser == [def |-> TRUE, username |-> AdminName, isAdmin |-> TRUE]

\* the settings file before the first call: bob owns a server and a group
InitialStore ==
    [users        |-> <<User(AdminName, TRUE, "p0"), User(Alice, FALSE, "p0"),
                        User(Bob, FALSE, "p0")>>,
     mcpServers   |-> <<Server("s1", Bob, "c0")>>,
     groups       |-> <<Group("g1", "n1", Bob, <<"s1">>)>>,
     systemConfig |-> Cfg("v0"),
     userConfigs  |-> [u \in {Bob} |-> Cfg("v0")]]

\* defaultSettings of JsonFileBaseDao.loadSettings
DefaultSettings ==
    [users |-> << >>, mcpServers |-> << >>, groups |-> << >>,
     systemConfig |-> EmptyMap, userConfigs |-> EmptyMap]

NoSubmitted ==
    [users |-> Absent, mcpServers |-> Absent, groups |-> Absent,
     systemConfig |-> Absent, userConfigs |-> Absent]

NoDaoResp ==
    [op |-> "none", user |-> NoUser, settings |-> NoSubmitted, ok |-> TRUE,
     result |-> DefaultSettings]

NoCfgResp == [op |-> "none", path |-> "none"]

DaoNames == {"serverDao", "groupDao"}

\* a settings file is modelled by the set of writes its contents include
InitialFile == [state |-> "ok", content |-> {0}, mtime |-> 0]
NoCache == [settingsCache |-> [def |-> FALSE, val |-> {}], lastModified |-> 0]
NoCacheResp == [op |-> "none", dao |-> "none", returned |-> {}]
NoOpResp == [op |-> "none"]
NoSchema == [kind |-> "undefined", properties |-> Absent]
NoDiscovery ==
    [phase |-> "idle", declared |-> {}, staged |-> << >>, published |-> {},
     failedAfter |-> 0]
UnmountedProvider ==
    [mounted |-> FALSE, isAuthenticated |-> FALSE, servers |-> "empty",
     isInitialLoading |-> TRUE, refreshKey |-> 0, intervalRef |-> "none",
     attemptsRef |-> 0, inflight |-> [kind \in {"initial", "normal"} |-> 0]]
NoRequest ==
    [stage |-> "none", path |-> << >>, ran |-> << >>, auth |-> "none"]

\* a call of addServerToGroup: where it stands and its local variables
NoGroupCall ==
    [pc |-> "idle", groupId |-> Undefined, serverName |-> Undefined,
     updatedServers |-> << >>, returned |-> Undefined]
\* the DAO has loaded the file once: settingsCache.groups and the file agree
NoGroupCalls ==
    [cache |-> InitialStore.groups, file |-> InitialStore.groups,
     call |-> [c \in {1, 2} |-> NoGroupCall]]

ApiInit ==
    /\ serverInfos = [i \in ServerIndex |->
                         [name |-> DeclaredServers[i], status |-> "disconnected",
                          tools |-> << >>]]
    /\ groups = <<[id |-> <<"1">>, name |-> GroupG, servers |-> << >>]>>
    /\ resp = NoResponse

DaoInit ==
    /\ store = InitialStore
    /\ daoResp = NoDaoResp

CfgIdle ==
    /\ USE_DAO_LAYER = FALSE
    /\ processEnv = Undefined
    /\ cfgResp = NoCfgResp
    /\ legacyResp = DefaultSettings

CacheInit ==
    /\ clock = 1
    /\ settingsFile = InitialFile
    /\ daoCache = [d \in DaoNames |-> NoCache]
    /\ writes = 0
    /\ cacheResp = NoCacheResp

OpInit ==
    /\ opResp = NoOpResp

ConvIdle ==
    /\ convIn = [queryParams |-> EmptyMap, inputSchema |-> NoSchema]
    /\ convOut = Absent

SupervisorIdle ==
    /\ discovery = [i \in ServerIndex |-> NoDiscovery]

ProviderIdle ==
    /\ provider = UnmountedProvider

RequestIdle ==
    /\ httpRequest = NoRequest

GroupCallIdle ==
    /\ groupDao = NoGroupCalls

NotOpInit ==
    ConvIdle /\ SupervisorIdle /\ ProviderIdle /\ RequestIdle
      /\ GroupCallIdle

NotConvInit ==
    OpInit /\ SupervisorIdle /\ ProviderIdle /\ RequestIdle
      /\ GroupCallIdle

NotSupervisorInit ==
    OpInit /\ ConvIdle /\ ProviderIdle /\ RequestIdle
      /\ GroupCallIdle

NotProviderInit ==
    OpInit /\ ConvIdle /\ SupervisorIdle /\ RequestIdle
      /\ GroupCallIdle

NotRequestInit ==
    OpInit /\ ConvIdle /\ SupervisorIdle /\ ProviderIdle
      /\ GroupCallIdle

NotGroupCallInit ==
    OpInit /\ ConvIdle /\ SupervisorIdle /\ ProviderIdle /\ RequestIdle

ExtInit == OpInit /\ NotOpInit

-----------------------------------------------------------------------------
(* The specification of the OpenAPI layer.                                 *)

Init == ApiInit /\ DaoInit /\ CfgIdle /\ CacheInit /\ ExtInit

Next ==
    \/ \E i \in ServerIndex :
         \E declared \in SUBSET Range(UpstreamTools(DeclaredServers[i])) :
            Connect(i, declared)
    \/ \E i \in ServerIndex : Disconnect(i)
    \/ \E i \in ServerIndex : \E p \in 1..2 : \E b \in BOOLEAN :
            SetToolEnabled(i, p, b)
    \/ \E servers \in NextMemberLists(groups[1].servers) : UpdateServers(1, servers)
    \/ \E options \in OptionChoices : GetOpenAPISpec(options)
    \/ GetOpenAPIServers
    \/ \E name \in {ServerA, ServerZ} : \E d \in BOOLEAN :
            GetServerOpenAPISpec(name, d)

Spec == Init /\ [][Next]_vars

-----------------------------------------------------------------------------
(* Tool and prompt invocation: executeToolViaOpenAPI and getPrompt, over   *)
(* the dispatcher of mcpService (handleCallToolRequest,                    *)
(* handleGetPromptRequest), which is modelled from the specification.      *)

UpstreamOutcomes == {"ok", "unreachable", "appError"}

Failure(kind) == [isError |-> TRUE, kind |-> kind, forwarded |-> FALSE]

\* what the upstream server answers to a forwarded call
Forwarded(upstream) ==
    [isError   |-> upstream # "ok",
     kind      |-> IF upstream = "ok" THEN "none"
                   ELSE IF upstream = "unreachable" THEN "TransportError"
                   ELSE "UpstreamApplicationError",
     forwarded |-> TRUE]

\* dispatch with server scope: the capability must exist and be enabled on
\* the server's live entry; the server prefix is added to the requested name
handleCallToolRequest(request, extra, upstream) ==
    LET live == SelectSeq(serverInfos, LAMBDA si :
                    si.name = extra.server /\ si.status = "connected")
    IN  IF live = << >> THEN Failure("NotFound")
        ELSE LET found == SelectSeq(live[1].tools, LAMBDA t :
                              t.name = NamespacedKey(extra.server, request.name))
             IN  IF found = << >> THEN Failure("NotFound")
                 ELSE IF ~found[1].enabled THEN Failure("Disabled")
                 ELSE Forwarded(upstream)

\* the outcomes of a prompt request the dispatcher can report for a server
PromptOutcomes(serverName) ==
    IF \E i \in 1..Len(serverInfos) :
          serverInfos[i].name = serverName /\ serverInfos[i].status = "connected"
    THEN {"ok", "NotFound", "Disabled", "TransportError", "UpstreamApplicationError"}
    ELSE {"NotFound"}

handleGetPromptRequest(outcome) ==
    [isError |-> outcome # "ok", kind |-> IF outcome = "ok" THEN "none" ELSE outcome]

\* the mock request with the full tool name instead of the bare one
MockRequestFullName(serverName, toolName) ==
    [name |-> NamespacedKey(serverName, toolName)]

\* mockRequest.params.name: the tool name without the server prefix
MockRequest(serverName, toolName) == [name |-> toolName]

\* POST|GET /api/tools/:serverName/:toolName; res.json(result)
ExecuteToolViaOpenAPI(serverName, toolName, upstream) ==
    LET extra == [server |-> serverName]
        result == handleCallToolRequest(MockRequest(serverName, toolName),
                                        extra, upstream)
    IN  /\ resp' = [NoResponse EXCEPT
                       !.handler = "executeToolViaOpenAPI", !.status = 200,
                       !.name = serverName, !.tool = toolName,
                       !.body = [NoBody EXCEPT !.isError = result.isError,
                                               !.kind = result.kind],
                       !.cause = result.kind,
                       !.forwarded = result.forwarded]
        /\ UNCHANGED <<serverInfos, groups, daoVars, cfgVars, cacheVars, extVars>>

\* POST /api/mcp/:serverName/prompts/:promptName
GetPrompt(serverName, promptName, outcome) ==
    /\ resp' =
          IF serverName = << >> \/ promptName = << >>
          THEN [NoResponse EXCEPT
                   !.handler = "getPrompt", !.status = 400,
                   !.name = serverName, !.tool = promptName,
                   !.body = [NoBody EXCEPT
                                !.message = "serverName and promptName are required"]]
          ELSE LET result == handleGetPromptRequest(outcome)
               IN  IF result.isError
                   THEN [NoResponse EXCEPT
                            !.handler = "getPrompt", !.status = 500,
                            !.name = serverName, !.tool = promptName,
                            !.body = [NoBody EXCEPT
                                         !.message = "Failed to get prompt"],
                            !.cause = result.kind]
                   ELSE [NoResponse EXCEPT
                            !.handler = "getPrompt", !.status = 200,
                            !.name = serverName, !.tool = promptName]
    /\ UNCHANGED <<serverInfos, groups, daoVars, cfgVars, cacheVars, extVars>>

NextCall ==
    \/ \E i \in ServerIndex :
         \E declared \in SUBSET Range(UpstreamTools(DeclaredServers[i])) :
            Connect(i, declared)
    \/ \E i \in ServerIndex : Disconnect(i)
    \/ \E i \in ServerIndex : \E p \in 1..2 : \E b \in BOOLEAN :
            SetToolEnabled(i, p, b)
    \/ \E serverName \in {ServerA, ServerZ} : \E toolName \in {ToolC, ToolBC, ToolQ} :
         \E upstream \in UpstreamOutcomes :
            ExecuteToolViaOpenAPI(serverName, toolName, upstream)
    \/ \E serverName \in {ServerA, ServerZ, << >>} :
         \E outcome \in PromptOutcomes(serverName) :
            GetPrompt(serverName, ToolC, outcome)

SpecCall == Init /\ [][NextCall]_vars

-----------------------------------------------------------------------------
(* Properties of the OpenAPI layer.                                        *)

IsConnected(name) ==
    \E i \in ServerIndex :
        serverInfos[i].name = name /\ serverInfos[i].status = "connected"

IsSpecResponse ==
    resp.handler \in {"getOpenAPISpec", "getServerOpenAPISpec"} /\ resp.status = 200

PassesServerFilter(name, options) ==
    ~options.serverFilter.def \/ name \in Range(options.serverFilter.val)

\* the members of the group that options.groupFilter names (<< >> if none)
GroupMembers(key) ==
    IF \E k \in 1..Len(groups) : groups[k].id = key \/ groups[k].name = key
    THEN groups[CHOOSE k \in 1..Len(groups) :
                   /\ (groups[k].id = key \/ groups[k].name = key)
                   /\ \A h \in 1..(k - 1) : ~(groups[h].id = key \/ groups[h].name = key)
               ].servers
    ELSE << >>

\* the member lets the tool named key of server name through
MemberAllows(member, name, key) ==
    \/ member.bare
    \/ member.tools.kind \in {"all", "undef"}
    \/ \E k \in 1..Len(member.tools.list) :
          key = NamespacedKey(name, member.tools.list[k])

\* C1 as stated: with groupFilter = G (and no other filter option) the
\* published tools are, for each member of G whose server is connected, that
\* server's enabled tools whose local name is in the member's tool list, or all
\* its enabled tools when the member is a bare name or has tools 'all' (a
\* member without a tool list is read as 'all')
StatedGroupTools(key) ==
    LET members == GroupMembers(key)
    IN  { PathName(serverInfos[i].name, serverInfos[i].tools[p].name) :
            <<i, p>> \in
              { ip \in ServerIndex \X (1..2) :
                  /\ ip[2] <= Len(serverInfos[ip[1]].tools)
                  /\ serverInfos[ip[1]].status = "connected"
                  /\ serverInfos[ip[1]].tools[ip[2]].enabled
                  /\ \E k \in 1..Len(members) :
                        /\ members[k].name = serverInfos[ip[1]].name
                        /\ \/ members[k].bare
                           \/ members[k].tools.kind \in {"all", "undef"}
                           \/ /\ members[k].tools.kind = "list"
                              /\ \E h \in 1..Len(members[k].tools.list) :
                                    serverInfos[ip[1]].tools[ip[2]].name =
                                      NamespacedKey(members[k].name,
                                                    members[k].tools.list[h]) } }

C1_GroupToolsAsStated ==
    (/\ resp.handler = "getOpenAPISpec"
     /\ resp.options.groupFilter # << >>
     /\ ~resp.options.includeDisabledTools
     /\ ~resp.options.serverFilter.def)
        => DOMAIN resp.doc.paths = StatedGroupTools(resp.options.groupFilter)

\* C1 as amended: the server must also pass serverFilter when one is given;
\* disabled tools count too when includeDisabledTools is set; and the member
\* that decides for a server is the last member of G that names it (a member
\* without a tool list allows every tool)
AmendedGroupTools(options) ==
    LET members == GroupMembers(options.groupFilter)
    IN  { PathName(serverInfos[i].name, serverInfos[i].tools[p].name) :
            <<i, p>> \in
              { ip \in ServerIndex \X (1..2) :
                  /\ ip[2] <= Len(serverInfos[ip[1]].tools)
                  /\ serverInfos[ip[1]].status = "connected"
                  /\ PassesServerFilter(serverInfos[ip[1]].name, options)
                  /\ \/ options.includeDisabledTools
                     \/ serverInfos[ip[1]].tools[ip[2]].enabled
                  /\ \E k \in 1..Len(members) :
                        /\ members[k].name = serverInfos[ip[1]].name
                        /\ \A h \in (k + 1)..Len(members) :
                              members[h].name # serverInfos[ip[1]].name
                        /\ MemberAllows(members[k], serverInfos[ip[1]].name,
                                        serverInfos[ip[1]].tools[ip[2]].name) } }

\* C1 (amended): the tools published under a group filter are exactly the
\* amended set; every published tag is a member of the group; an unknown
\* group publishes nothing
C1_GroupTools ==
    (resp.handler = "getOpenAPISpec" /\ resp.options.groupFilter # << >>)
        => /\ DOMAIN resp.doc.paths = AmendedGroupTools(resp.options)
           /\ \A t \in Range(resp.doc.tags) :
                 \E k \in 1..Len(GroupMembers(resp.options.groupFilter)) :
                     GroupMembers(resp.options.groupFilter)[k].name = t
           /\ (resp.options.groupFilter = GroupN
                 => resp.doc.paths = EmptyMap /\ resp.doc.tags = << >>)

\* a group of two members, one naming an absent server and one with an
\* allow-list, filters a connected server with two enabled tools down to one
C1_Witness ==
    /\ resp.handler = "getOpenAPISpec"
    /\ resp.options.groupFilter = GroupG
    /\ groups[1].servers = <<Bare(ServerZ), Obj(ServerA, "list", <<ToolBC>>)>>
    /\ serverInfos[1].status = "connected"
    /\ Len(serverInfos[1].tools) = 2
    /\ serverInfos[1].tools[1].enabled /\ serverInfos[1].tools[2].enabled
    /\ serverInfos[2].status = "connected" /\ Len(serverInfos[2].tools) = 1
    /\ DOMAIN resp.doc.paths = {PathName(ServerA, NamespacedKey(ServerA, ToolBC))}

\* C2: any two distinct tools of the registry have distinct namespaced keys,
\* distinct paths and distinct operation ids
C2_NamespacedKeysUnique ==
    \A i, j \in ServerIndex :
      \A p \in 1..Len(serverInfos[i].tools) :
        \A q \in 1..Len(serverInfos[j].tools) :
          <<i, p>> # <<j, q>> =>
            /\ serverInfos[i].tools[p].name # serverInfos[j].tools[q].name
            /\ PathName(serverInfos[i].name, serverInfos[i].tools[p].name)
                 # PathName(serverInfos[j].name, serverInfos[j].tools[q].name)
            /\ OperationId(serverInfos[i].name, serverInfos[i].tools[p].name)
                 # OperationId(serverInfos[j].name, serverInfos[j].tools[q].name)

\* C4: specifications carry tags and paths of connected servers only, the
\* server list is the list of connected servers, and the specification of a
\* server that is not connected or not declared is answered 404
C4_ConnectedOnly ==
    /\ IsSpecResponse =>
          /\ \A t \in Range(resp.doc.tags) : IsConnected(t)
          /\ \A pn \in DOMAIN resp.doc.paths :
                \A m \in DOMAIN resp.doc.paths[pn] :
                    IsConnected(resp.doc.paths[pn][m].tags[1])
    /\ resp.handler = "getOpenAPIServers" =>
          /\ resp.status = 200
          /\ Range(resp.data) = {n \in Range(DeclaredServers) : IsConnected(n)}
    /\ resp.handler = "getServerOpenAPISpec" =>
          /\ resp.status = IF IsConnected(resp.name) THEN 200 ELSE 404
          /\ resp.status = 404 => resp.doc = NoDoc

\* a disconnected server that still lists a tool is left out of a
\* specification that publishes the connected one
C4_Witness ==
    /\ resp.handler = "getOpenAPISpec"
    /\ resp.options = NoOptions
    /\ serverInfos[1].status = "disconnected" /\ Len(serverInfos[1].tools) = 2
    /\ serverInfos[2].status = "connected" /\ Len(serverInfos[2].tools) = 1
    /\ resp.doc.tags = <<ServerAB>>
    /\ Cardinality(DOMAIN resp.doc.paths) = 1

\* C5, visibility: without includeDisabledTools no disabled tool has a path;
\* without a group filter every connected server that passes serverFilter keeps
\* its tag and each of its enabled tools keeps its path
C5_Visibility ==
    IsSpecResponse =>
        \A i \in ServerIndex :
            LET si == serverInfos[i]
            IN  /\ \A p \in 1..Len(si.tools) :
                      (~resp.options.includeDisabledTools /\ ~si.tools[p].enabled)
                          => PathName(si.name, si.tools[p].name)
                                \notin DOMAIN resp.doc.paths
                /\ (/\ resp.options.groupFilter = << >>
                    /\ si.status = "connected"
                    /\ PassesServerFilter(si.name, resp.options))
                      => /\ si.name \in Range(resp.doc.tags)
                         /\ \A p \in 1..Len(si.tools) :
                               si.tools[p].enabled
                                  => PathName(si.name, si.tools[p].name)
                                        \in DOMAIN resp.doc.paths

\* C5: visibility always holds, and a step that sets a tool's enabled flag
\* leaves every server's connection status as it was
C5_EnabledIndependent ==
    /\ []C5_Visibility
    /\ [][(\E i \in ServerIndex : \E p \in 1..2 : \E b \in BOOLEAN :
              SetToolEnabled(i, p, b))
            => \A i \in ServerIndex :
                  serverInfos'[i].status = serverInfos[i].status]_vars

\* a connected server with one disabled and one enabled tool: its tag and the
\* enabled tool are published, the disabled tool is not
C5_Witness ==
    /\ resp.handler = "getOpenAPISpec"
    /\ resp.options = NoOptions
    /\ serverInfos[1].status = "connected"
    /\ Len(serverInfos[1].tools) = 2
    /\ ~serverInfos[1].tools[1].enabled /\ serverInfos[1].tools[2].enabled
    /\ ServerA \in Range(resp.doc.tags)
    /\ PathName(ServerA, NamespacedKey(ServerA, ToolC)) \in DOMAIN resp.doc.paths
    /\ PathName(ServerA, NamespacedKey(ServerA, ToolBC)) \notin DOMAIN resp.doc.paths

-----------------------------------------------------------------------------
(* Properties of tool and prompt invocation.                               *)

\* the tool the last executeToolViaOpenAPI asked for is disabled on its
\* connected server
CalledDisabledTool ==
    /\ resp.handler = "executeToolViaOpenAPI"
    /\ \E i \in ServerIndex :
          /\ serverInfos[i].name = resp.name
          /\ serverInfos[i].status = "connected"
          /\ \E p \in 1..Len(serverInfos[i].tools) :
                /\ serverInfos[i].tools[p].name = resp.name \o <<"-">> \o resp.tool
                /\ ~serverInfos[i].tools[p].enabled

C6_FailureCarriesKind ==
    (resp.handler \in {"executeToolViaOpenAPI", "getPrompt"} /\ resp.cause # "none")
        => resp.body.kind = resp.cause

-----------------------------------------------------------------------------
(* The DAOs.  One DAO operation reads the list of its section (getAll),    *)
(* changes it and writes the whole file back (saveAll).  The operators     *)
(* below give, for the list an operation works on, the list it saves,      *)
(* whether it reaches saveAll and whether it throws.                       *)

UuidPool == {"u1", "u2", "u3", "u4"}

HasName(list, name) == \E i \in 1..Len(list) : list[i].name = name
HasId(list, id) == \E i \in 1..Len(list) : list[i].id = id
HasUser(list, username) == \E i \in 1..Len(list) : list[i].username = username

\* Array.prototype.findIndex
IndexOfName(list, name) ==
    CHOOSE i \in 1..Len(list) :
        list[i].name = name /\ \A j \in 1..(i - 1) : list[j].name # name
IndexOfId(list, id) ==
    CHOOSE i \in 1..Len(list) :
        list[i].id = id /\ \A j \in 1..(i - 1) : list[j].id # id
IndexOfUser(list, username) ==
    CHOOSE i \in 1..Len(list) :
        list[i].username = username
          /\ \A j \in 1..(i - 1) : list[j].username # username

\* {...existing, ...updates}: a field the update leaves out keeps its value
Spread(existing, update) == IF update = Undefined THEN existing ELSE update

\* entities.splice(index, 1)
RemoveAt(list, i) == SubSeq(list, 1, i - 1) \o SubSeq(list, i + 1, Len(list))

\* obj[name] = config: in place when the key exists, appended when it is new
ObjSet(list, e) ==
    IF HasName(list, e.name)
    THEN [list EXCEPT ![IndexOfName(list, e.name)] = e]
    ELSE Append(list, e)

\* deepMerge of two configurations whose values are scalars
deepMerge(target, source) ==
    [k \in (DOMAIN target) \cup (DOMAIN source) |->
        IF k \in DOMAIN source THEN source[k] ELSE target[k]]

\* uuidv4(): an id no group carries
uuidv4(list) == CHOOSE u \in UuidPool : ~HasId(list, u)

NotSaved(list) == [list |-> list, wrote |-> FALSE, threw |-> FALSE]
Thrown(list) == [list |-> list, wrote |-> FALSE, threw |-> TRUE]
Saved(list) == [list |-> list, wrote |-> TRUE, threw |-> FALSE]

\* UserDaoImpl.update (the submitted user carries every field)
UserDaoUpdate(users, username, updates) ==
    IF ~HasUser(users, username) THEN NotSaved(users)
    ELSE LET index == IndexOfUser(users, username)
         IN  Saved([users EXCEPT ![index] =
                       User(users[index].username, updates.isAdmin,
                            updates.password)])

ServerDaoUpdate(servers, name, updates) ==
    IF ~HasName(servers, name) THEN NotSaved(servers)
    ELSE LET index == IndexOfName(servers, name)
         IN  Saved([servers EXCEPT ![index] =
                       [Server(servers[index].name,
                               Spread(servers[index].owner, updates.owner),
                               Spread(servers[index].command, updates.command))
                        EXCEPT !.enabled = Spread(servers[index].enabled,
                                                  updates.enabled)]])

ServerDaoCreate(servers, data) ==
    IF HasName(servers, data.name) THEN Thrown(servers)
    ELSE Saved(Append(servers,
                      [Server(data.name, Spread(AdminName, data.owner),
                              data.command)
                       EXCEPT !.enabled = Spread("true", data.enabled)]))

ServerDaoDelete(servers, name) ==
    IF ~HasName(servers, name) THEN NotSaved(servers)
    ELSE Saved(RemoveAt(servers, IndexOfName(servers, name)))

\* GroupDaoImpl.update (the submitted group carries name and servers)
GroupDaoUpdate(list, id, updates) ==
    IF ~HasId(list, id) THEN NotSaved(list)
    ELSE LET index == IndexOfId(list, id)
         IN  IF /\ updates.name # list[index].name
                /\ \E i \in 1..Len(list) :
                      list[i].name = updates.name /\ list[i].id # id
             THEN Thrown(list)
             ELSE Saved([list EXCEPT ![index] =
                           Group(list[index].id, updates.name,
                                 Spread(list[index].owner, updates.owner),
                                 updates.servers)])

\* GroupDaoImpl.createEntity: {id: uuidv4(), owner: 'admin', ...data, servers}
createEntity(list, data) ==
    Group(Spread(uuidv4(list), data.id), data.name,
          Spread(AdminName, data.owner), data.servers)

GroupDaoCreate(list, data) ==
    IF HasName(list, data.name) THEN Thrown(list)
    ELSE Saved(Append(list, createEntity(list, data)))

GroupDaoDelete(list, id) ==
    IF ~HasId(list, id) THEN NotSaved(list)
    ELSE Saved(RemoveAt(list, IndexOfId(list, id)))

-----------------------------------------------------------------------------
(* DaoConfigService.                                                       *)
(*                                                                         *)
(* saveSettings starts the DAO operations of a section without awaiting    *)
(* them one by one.  The operations of one DAO run in lockstep: each reads *)
(* its list before any of them saves.  UserDao and GroupDao hand out the   *)
(* cached array itself, so their operations change one shared list and     *)
(* every save writes that list; ServerDao builds a new array per call, so  *)
(* each operation changes its own copy of the list read at the start and   *)
(* the last save wins.  The user operations have saved before the server   *)
(* operations start, and those before the last block starts (each block is *)
(* behind an awaited findAll).  In the last block the system-config and    *)
(* user-config updates save after one await, the group operations after    *)
(* three, and each saves the file as its DAO read it plus its own section. *)
(* Every read here sees the file's current contents: the cache of          *)
(* JsonFileBaseDao is modelled on its own further down.                    *)

\* what loadSettings() builds from the five DAOs
AllSettings(file) ==
    [users |-> file.users, mcpServers |-> file.mcpServers,
     groups |-> file.groups, systemConfig |-> file.systemConfig,
     userConfigs |-> file.userConfigs]

\* filterSettingsForUser that lets every group through
filterSettingsKeepGroups(settings, user) ==
    IF user.isAdmin THEN settings
    ELSE [users        |-> << >>,
          mcpServers   |-> SelectSeq(settings.mcpServers, LAMBDA config :
                               config.owner = user.username
                                 \/ config.owner = Undefined),
          groups       |-> settings.groups,
          systemConfig |-> EmptyMap,
          userConfigs  |->
              [u \in {user.username} |->
                  IF u \in DOMAIN settings.userConfigs
                  THEN settings.userConfigs[u] ELSE EmptyMap]]

filterSettingsForUser(settings, user) ==
    IF user.isAdmin THEN settings
    ELSE [users        |-> << >>,
          mcpServers   |-> SelectSeq(settings.mcpServers, LAMBDA config :
                               config.owner = user.username
                                 \/ config.owner = Undefined),
          groups       |-> SelectSeq(settings.groups, LAMBDA group :
                               group.owner = user.username
                                 \/ group.owner = Undefined),
          systemConfig |-> EmptyMap,
          userConfigs  |->
              [u \in {user.username} |->
                  IF u \in DOMAIN settings.userConfigs
                  THEN settings.userConfigs[u] ELSE EmptyMap]]

loadSettingsDao(file, user) ==
    IF user.def /\ ~user.isAdmin
    THEN filterSettingsForUser(AllSettings(file), user)
    ELSE AllSettings(file)

\* for (const [name, config] of Object.entries(newSettings.mcpServers))
RECURSIVE MergeServers(_, _, _)
MergeServers(mcpServers, entries, username) ==
    IF entries = << >> THEN mcpServers
    ELSE LET config == Head(entries)
             existing == SelectSeq(mcpServers, LAMBDA c : c.name = config.name)
         IN  MergeServers(
                 IF existing = << >> \/ existing[1].owner = username
                 THEN ObjSet(mcpServers, [config EXCEPT !.owner = username])
                 ELSE mcpServers,
                 Tail(entries), username)

MergeGroups(currentGroups, newGroups, username) ==
    LET mine == SelectSeq(newGroups, LAMBDA group :
                    group.owner = Undefined \/ group.owner = username)
        userGroups == [i \in 1..Len(mine) |-> [mine[i] EXCEPT !.owner = username]]
        otherGroups == SelectSeq(currentGroups, LAMBDA group :
                           group.owner # username)
    IN  otherGroups \o userGroups

\* the result is a settings object with every section present
mergeSettingsForUser(currentSettings, newSettings, user) ==
    [users        |-> Some(currentSettings.users),
     mcpServers   |-> Some(IF newSettings.mcpServers.def
                           THEN MergeServers(currentSettings.mcpServers,
                                             newSettings.mcpServers.val,
                                             user.username)
                           ELSE currentSettings.mcpServers),
     groups       |-> Some(IF newSettings.groups.def
                           THEN MergeGroups(currentSettings.groups,
                                            newSettings.groups.val,
                                            user.username)
                           ELSE currentSettings.groups),
     systemConfig |-> Some(currentSettings.systemConfig),
     userConfigs  |-> Some(IF /\ newSettings.userConfigs.def
                              /\ user.username \in DOMAIN newSettings.userConfigs.val
                           THEN MapSet(currentSettings.userConfigs, user.username,
                                       newSettings.userConfigs.val[user.username])
                           ELSE currentSettings.userConfigs)]

\* the userDao.update calls of saveSettings, on the shared user list
RECURSIVE RunUserOps(_, _)
RunUserOps(users, submitted) ==
    IF submitted = << >> THEN users
    ELSE RunUserOps(
             UserDaoUpdate(users, Head(submitted).username, Head(submitted)).list,
             Tail(submitted))

\* the serverDao calls saveSettings pushes, in order
ServerOps(mcpServers, currentServers) ==
    LET gone == SelectSeq(currentServers, LAMBDA existing :
                    ~HasName(mcpServers, existing.name))
    IN  [i \in 1..Len(mcpServers) |->
            [kind |-> IF HasName(currentServers, mcpServers[i].name)
                      THEN "update" ELSE "create",
             data |-> mcpServers[i]]]
        \o [i \in 1..Len(gone) |-> [kind |-> "delete", data |-> gone[i]]]

ApplyServerOp(servers, op) ==
    IF op.kind = "update" THEN ServerDaoUpdate(servers, op.data.name, op.data)
    ELSE IF op.kind = "create" THEN ServerDaoCreate(servers, op.data)
    ELSE ServerDaoDelete(servers, op.data.name)

\* every operation works on its own copy of the list read at the start
\* (snapshot); the list on file is that of the last operation that saved
RECURSIVE RunServerOps(_, _, _)
RunServerOps(acc, snapshot, ops) ==
    IF ops = << >> THEN acc
    ELSE LET r == ApplyServerOp(snapshot, Head(ops))
         IN  RunServerOps([list  |-> IF r.wrote THEN r.list ELSE acc.list,
                           wrote |-> acc.wrote \/ r.wrote,
                           threw |-> acc.threw \/ r.threw],
                          snapshot, Tail(ops))

\* the groupDao calls saveSettings pushes, in order
GroupOps(newGroups, currentGroups) ==
    LET gone == SelectSeq(currentGroups, LAMBDA existing :
                    ~HasId(newGroups, existing.id))
    IN  [i \in 1..Len(newGroups) |->
            [kind |-> IF /\ newGroups[i].id # Undefined
                         /\ HasId(currentGroups, newGroups[i].id)
                      THEN "update" ELSE "create",
             data |-> newGroups[i]]]
        \o [i \in 1..Len(gone) |-> [kind |-> "delete", data |-> gone[i]]]

ApplyGroupOp(list, op) ==
    IF op.kind = "update" THEN GroupDaoUpdate(list, op.data.id, op.data)
    ELSE IF op.kind = "create" THEN GroupDaoCreate(list, op.data)
    ELSE GroupDaoDelete(list, op.data.id)

\* the operations change the one shared list, one after the other
RECURSIVE RunGroupOps(_, _)
RunGroupOps(acc, ops) ==
    IF ops = << >> THEN acc
    ELSE LET r == ApplyGroupOp(acc.list, Head(ops))
         IN  RunGroupOps([list  |-> r.list,
                          wrote |-> acc.wrote \/ r.wrote,
                          threw |-> acc.threw \/ r.threw],
                         Tail(ops))

\* userConfigDao.update for every entry of settings.userConfigs
UpdateUserConfigs(userConfigs, submitted) ==
    [u \in (DOMAIN userConfigs) \cup (DOMAIN submitted) |->
        IF u \in DOMAIN submitted
        THEN deepMerge(IF u \in DOMAIN userConfigs THEN userConfigs[u]
                       ELSE EmptyMap,
                       submitted[u])
        ELSE userConfigs[u]]

\* the file saveSettings leaves behind and the value it returns
saveSettingsDao(file, newSettings, user) ==
    LET settings ==
            IF user.def /\ ~user.isAdmin
            THEN mergeSettingsForUser(loadSettingsDao(file, NoUser),
                                      newSettings, user)
            ELSE newSettings
        \* users
        known == IF settings.users.def
                 THEN SelectSeq(settings.users.val, LAMBDA u :
                          HasUser(file.users, u.username))
                 ELSE << >>
        afterUsers == [file EXCEPT !.users = RunUserOps(file.users, known)]
        \* servers
        serverRun ==
            RunServerOps(NotSaved(afterUsers.mcpServers), afterUsers.mcpServers,
                         IF settings.mcpServers.def
                         THEN ServerOps(settings.mcpServers.val,
                                        afterUsers.mcpServers)
                         ELSE << >>)
        afterServers == [afterUsers EXCEPT !.mcpServers = serverRun.list]
        \* groups, system configuration, user configurations
        groupRun ==
            RunGroupOps(NotSaved(afterServers.groups),
                        IF settings.groups.def
                        THEN GroupOps(settings.groups.val, afterServers.groups)
                        ELSE << >>)
        afterSystem ==
            IF settings.systemConfig.def
            THEN [afterServers EXCEPT
                     !.systemConfig = deepMerge(@, settings.systemConfig.val)]
            ELSE afterServers
        afterConfigs ==
            IF settings.userConfigs.def /\ DOMAIN settings.userConfigs.val # {}
            THEN [afterServers EXCEPT
                     !.userConfigs =
                         UpdateUserConfigs(@, settings.userConfigs.val)]
            ELSE afterSystem
        afterGroups ==
            IF groupRun.wrote
            THEN [afterConfigs EXCEPT !.groups = groupRun.list]
            ELSE afterConfigs
    IN  [file |-> afterGroups, ok |-> ~(serverRun.threw \/ groupRun.threw)]

-----------------------------------------------------------------------------
(* The callers and the settings they submit.                               *)

UserChoices == {AliceUser, AdminUser, NoUser}

\* a group carrying the id of the group g1
GroupById ==
    [NoSubmitted EXCEPT
        !.groups = Some(<<Group("g1", "n1", Undefined, << >>)>>)]
\* a server carrying the name of the server s1, and a new server
ServersByName ==
    [NoSubmitted EXCEPT
        !.mcpServers = Some(<<Server("s1", Undefined, "c1"),
                              Server("s2", Undefined, "c0")>>)]
\* a new group, and personal configurations for two users
NewGroupAndConfigs ==
    [NoSubmitted EXCEPT
        !.groups = Some(<<Group(Undefined, "n2", Undefined, <<"s2">>)>>),
        !.userConfigs = Some([u \in {Alice, Bob} |-> Cfg("v1")])]
\* a changed user and a changed system configuration
UsersAndSystem ==
    [NoSubmitted EXCEPT
        !.users = Some(<<User(Alice, TRUE, "p1")>>),
        !.systemConfig = Some(Cfg("v1"))]
\* the settings file as it was at the start, every section present
Restore ==
    [users        |-> Some(InitialStore.users),
     mcpServers   |-> Some(InitialStore.mcpServers),
     groups       |-> Some(InitialStore.groups),
     systemConfig |-> Some(InitialStore.systemConfig),
     userConfigs  |-> Some(InitialStore.userConfigs)]

SubmittedChoices ==
    {GroupById, ServersByName, NewGroupAndConfigs, UsersAndSystem, Restore}

\* DaoConfigService.loadSettings(user)
DaoLoadSettings(user) ==
    /\ daoResp' = [NoDaoResp EXCEPT
                      !.op = "loadSettings", !.user = user,
                      !.result = loadSettingsDao(store, user)]
    /\ UNCHANGED <<store, apiVars, cfgVars, cacheVars, extVars>>

\* DaoConfigService.saveSettings(settings, user)
DaoSaveSettings(settings, user) ==
    LET saved == saveSettingsDao(store, settings, user)
    IN  /\ store' = saved.file
        /\ daoResp' = [NoDaoResp EXCEPT
                          !.op = "saveSettings", !.user = user,
                          !.settings = settings, !.ok = saved.ok]
        /\ UNCHANGED <<apiVars, cfgVars, cacheVars, extVars>>

NextDao ==
    \/ \E user \in UserChoices : DaoLoadSettings(user)
    \/ \E user \in UserChoices : \E settings \in SubmittedChoices :
          DaoSaveSettings(settings, user)

SpecDao == Init /\ [][NextDao]_vars

-----------------------------------------------------------------------------
(* Properties of DaoConfigService.                                         *)

\* the item is owned by a user other than username
OwnedByAnother(item, username) ==
    item.owner # username /\ item.owner # Undefined

\* C7: a saveSettings by the non-admin user alice leaves every server and
\* every group owned by another user as it was, and leaves the user list, the
\* system configuration and the other users' personal configurations as they
\* were
C7_NonAdminSaveFrame ==
    [][(\E settings \in SubmittedChoices : DaoSaveSettings(settings, AliceUser))
         => /\ \A i \in 1..Len(store.mcpServers) :
                  OwnedByAnother(store.mcpServers[i], Alice)
                     => store.mcpServers[i] \in Range(store'.mcpServers)
            /\ \A i \in 1..Len(store.groups) :
                  OwnedByAnother(store.groups[i], Alice)
                     => store.groups[i] \in Range(store'.groups)
            /\ store'.users = store.users
            /\ store'.systemConfig = store.systemConfig
            /\ \A u \in ((DOMAIN store.userConfigs) \cup (DOMAIN store'.userConfigs))
                          \ {Alice} :
                  /\ u \in DOMAIN store.userConfigs
                  /\ u \in DOMAIN store'.userConfigs
                  /\ store'.userConfigs[u] = store.userConfigs[u]]_vars

\* the stores that differ from file only in what other users own: any of
\* their servers and groups dropped or changed, a server and a group of
\* theirs added, any of their personal configurations dropped or changed
OthersVariants(file, username) ==
    { [file EXCEPT
          !.mcpServers =
              LET kept == SelectSeq(file.mcpServers, LAMBDA config :
                              ~OwnedByAnother(config, username)
                                \/ config.name \in keepServers)
              IN  (IF add THEN <<Server("sx", Bob, "c0")>> ELSE << >>)
                  \o [i \in 1..Len(kept) |->
                         IF OwnedByAnother(kept[i], username) /\ change
                         THEN [kept[i] EXCEPT !.command = "cx"]
                         ELSE kept[i]],
          !.groups =
              LET kept == SelectSeq(file.groups, LAMBDA group :
                              ~OwnedByAnother(group, username)
                                \/ group.id \in keepGroups)
              IN  (IF add THEN <<Group("gx", "nx", Bob, << >>)>> ELSE << >>)
                  \o [i \in 1..Len(kept) |->
                         IF OwnedByAnother(kept[i], username) /\ change
                         THEN [kept[i] EXCEPT !.servers = <<"sx">>]
                         ELSE kept[i]],
          !.userConfigs =
              [u \in ((DOMAIN file.userConfigs) \cap ({username} \cup keepConfigs))
                 |-> IF u # username /\ change THEN Cfg("vx")
                     ELSE file.userConfigs[u]]] :
        keepServers \in SUBSET {"s1", "s2"},
        keepGroups \in SUBSET ({"g1"} \cup UuidPool),
        keepConfigs \in SUBSET {Bob, AdminName},
        change \in BOOLEAN,
        add \in BOOLEAN }

\* C8: what loadSettings returns to the non-admin user u holds only servers
\* and groups owned by u or by nobody, no users, no system configuration and
\* only u's own personal configuration; and it is what loadSettings would
\* return from any store that differs only in what other users own
C8_LoadFiltersByOwner ==
    (daoResp.op = "loadSettings" /\ daoResp.user.def /\ ~daoResp.user.isAdmin)
        => LET username == daoResp.user.username
               result == daoResp.result
           IN  /\ \A i \in 1..Len(result.mcpServers) :
                     /\ result.mcpServers[i] \in Range(store.mcpServers)
                     /\ ~OwnedByAnother(result.mcpServers[i], username)
               /\ \A i \in 1..Len(result.groups) :
                     /\ result.groups[i] \in Range(store.groups)
                     /\ ~OwnedByAnother(result.groups[i], username)
               /\ result.users = << >>
               /\ result.systemConfig = EmptyMap
               /\ DOMAIN result.userConfigs = {username}
               /\ username \in DOMAIN store.userConfigs
                     => result.userConfigs[username] = store.userConfigs[username]
               /\ \A other \in OthersVariants(store, username) :
                     loadSettingsDao(other, daoResp.user) = result

\* alice loads while bob owns a server and a group and she owns a server and
\* a group: she gets hers only
C8_Witness ==
    /\ daoResp.op = "loadSettings"
    /\ daoResp.user = AliceUser
    /\ \E i \in 1..Len(store.mcpServers) : store.mcpServers[i].owner = Bob
    /\ \E i \in 1..Len(store.groups) : store.groups[i].owner = Bob
    /\ Len(daoResp.result.mcpServers) = 1
    /\ daoResp.result.mcpServers[1].owner = Alice
    /\ Len(daoResp.result.groups) = 1
    /\ daoResp.result.groups[1].owner = Alice
    /\ store.users # << >> /\ store.systemConfig # EmptyMap

-----------------------------------------------------------------------------
(* configManager: the switch between the DAO layer and the legacy path.    *)
(* USE_DAO_LAYER is a module constant: it is computed from process.env     *)
(* once, when the module is loaded.  The legacy functions (config/index,   *)
(* dataService) read and write the settings file as a whole.               *)

EnvChoices == {"true", "false", Undefined}

legacyLoadSettings(file) == AllSettings(file)

\* mergeSettings and legacySaveSettings: the submitted sections are written
legacySaveSettings(file, settings) ==
    [users        |-> IF settings.users.def THEN settings.users.val
                      ELSE file.users,
     mcpServers   |-> IF settings.mcpServers.def THEN settings.mcpServers.val
                      ELSE file.mcpServers,
     groups       |-> IF settings.groups.def
                      THEN [i \in 1..Len(settings.groups.val) |->
                               createEntity(file.groups, settings.groups.val[i])]
                      ELSE file.groups,
     systemConfig |-> IF settings.systemConfig.def THEN settings.systemConfig.val
                      ELSE file.systemConfig,
     userConfigs  |-> IF settings.userConfigs.def THEN settings.userConfigs.val
                      ELSE file.userConfigs]

\* the branch every configManager function takes
DataAccessPath == IF USE_DAO_LAYER THEN "dao" ELSE "legacy"

SwitchToDao ==
    /\ processEnv' = "true"
    /\ cfgResp' = [op |-> "switchToDao", path |-> "none"]
    /\ UNCHANGED <<USE_DAO_LAYER, legacyResp, apiVars, daoVars, cacheVars, extVars>>

SwitchToLegacy ==
    /\ processEnv' = "false"
    /\ cfgResp' = [op |-> "switchToLegacy", path |-> "none"]
    /\ UNCHANGED <<USE_DAO_LAYER, legacyResp, apiVars, daoVars, cacheVars, extVars>>

LoadSettings(user) ==
    /\ cfgResp' = [op |-> "loadSettings", path |-> DataAccessPath]
    /\ daoResp' = IF USE_DAO_LAYER
                  THEN [NoDaoResp EXCEPT
                           !.op = "loadSettings", !.user = user,
                           !.result = loadSettingsDao(store, user)]
                  ELSE daoResp
    /\ legacyResp' = IF USE_DAO_LAYER THEN legacyResp
                     ELSE legacyLoadSettings(store)
    /\ UNCHANGED <<store, USE_DAO_LAYER, processEnv, apiVars, cacheVars, extVars>>

SaveSettings(settings, user) ==
    LET saved == IF USE_DAO_LAYER
                 THEN saveSettingsDao(store, settings, user)
                 ELSE [file |-> legacySaveSettings(store, settings), ok |-> TRUE]
    IN  /\ cfgResp' = [op |-> "saveSettings", path |-> DataAccessPath]
        /\ store' = saved.file
        /\ daoResp' = IF USE_DAO_LAYER
                      THEN [NoDaoResp EXCEPT
                               !.op = "saveSettings", !.user = user,
                               !.settings = settings, !.ok = saved.ok]
                      ELSE daoResp
        /\ UNCHANGED <<USE_DAO_LAYER, processEnv, legacyResp, apiVars, cacheVars, extVars>>

ClearSettingsCache ==
    /\ cfgResp' = [op |-> "clearSettingsCache", path |-> DataAccessPath]
    /\ UNCHANGED <<USE_DAO_LAYER, processEnv, legacyResp, apiVars, daoVars, cacheVars, extVars>>

\* the process starts with any value of the environment variable
CfgInit ==
    /\ processEnv \in EnvChoices
    /\ USE_DAO_LAYER = (processEnv = "true")
    /\ cfgResp = NoCfgResp
    /\ legacyResp = DefaultSettings

InitCfg == ApiInit /\ DaoInit /\ CfgInit /\ CacheInit /\ ExtInit

NextCfg ==
    \/ SwitchToDao
    \/ SwitchToLegacy
    \/ \E user \in UserChoices : LoadSettings(user)
    \/ \E user \in UserChoices : \E settings \in SubmittedChoices :
          SaveSettings(settings, user)
    \/ ClearSettingsCache

SpecCfg == InitCfg /\ [][NextCfg]_vars

\* C9: a loadSettings, saveSettings or clearSettingsCache call takes the path
\* that the last switch selected: the DAO layer after switchToDao, the
\* legacy path after switchToLegacy
C9_SwitchTakesEffect ==
    cfgResp.op \in {"loadSettings", "saveSettings", "clearSettingsCache"}
        => /\ processEnv = "true" => cfgResp.path = "dao"
           /\ processEnv = "false" => cfgResp.path = "legacy"

-----------------------------------------------------------------------------
(* JsonFileBaseDao: the settings cache of a DAO instance.  The contents of *)
(* the file are the set of the writes they include; a DAO saves what it    *)
(* has loaded plus its own change.  Date.now() and the file's mtime are    *)
(* whole milliseconds of one clock.                                        *)

MaxClock == 3        \* the clock stops here
MaxWrites == 3       \* the file is written at most this often

CachedSettings(settings, lastModified) ==
    [settingsCache |-> [def |-> TRUE, val |-> settings],
     lastModified  |-> lastModified]

\* loadSettings: the settings returned and the cache left behind.  statSync
\* throws when the file is missing, readFileSync when it is unreadable,
\* JSON.parse when it is corrupt; the catch branch caches the default
\* settings (no write included) under Date.now()
jsonLoadSettings(cache, file, now) ==
    LET caught == [settings |-> {}, cache |-> CachedSettings({}, now)]
    IN  IF file.state = "missing" THEN caught
        ELSE IF cache.settingsCache.def /\ cache.lastModified >= file.mtime
        THEN [settings |-> cache.settingsCache.val, cache |-> cache]
        ELSE IF file.state \in {"corrupt", "unreadable"} THEN caught
        ELSE [settings |-> file.content,
              cache    |-> CachedSettings(file.content, file.mtime)]

\* a read through DAO instance d (getAll)
DaoRead(d) ==
    LET loaded == jsonLoadSettings(daoCache[d], settingsFile, clock)
    IN  /\ daoCache' = [daoCache EXCEPT ![d] = loaded.cache]
        /\ cacheResp' = [op |-> "load", dao |-> d, returned |-> loaded.settings]
        /\ UNCHANGED <<clock, settingsFile, writes, apiVars, daoVars, cfgVars, extVars>>

\* a write through DAO instance d (saveAll): loadSettings, the change, then
\* saveSettings; Date.now() after the write may be a millisecond later
DaoWrite(d, late) ==
    LET loaded == jsonLoadSettings(daoCache[d], settingsFile, clock)
        settings == loaded.settings \cup {writes + 1}
    IN  /\ writes < MaxWrites
        /\ clock + late <= MaxClock
        /\ settingsFile' = [state |-> "ok", content |-> settings, mtime |-> clock]
        /\ daoCache' = [daoCache EXCEPT
                           ![d] = CachedSettings(settings, clock + late)]
        /\ clock' = clock + late
        /\ writes' = writes + 1
        /\ cacheResp' = [op |-> "save", dao |-> d, returned |-> settings]
        /\ UNCHANGED <<apiVars, daoVars, cfgVars, extVars>>

\* another process edits the file
ExternalWrite ==
    /\ writes < MaxWrites
    /\ settingsFile' =
          [state   |-> "ok",
           content |-> (IF settingsFile.state = "ok" THEN settingsFile.content
                        ELSE {}) \cup {writes + 1},
           mtime   |-> clock]
    /\ writes' = writes + 1
    /\ cacheResp' = [op |-> "external", dao |-> "none", returned |-> {}]
    /\ UNCHANGED <<clock, daoCache, apiVars, daoVars, cfgVars, extVars>>

\* another process removes the file, or leaves it unparseable
ExternalDamage(state) ==
    /\ settingsFile.state = "ok"
    /\ settingsFile' = [settingsFile EXCEPT !.state = state, !.mtime = clock]
    /\ cacheResp' = [op |-> "external", dao |-> "none", returned |-> {}]
    /\ UNCHANGED <<clock, daoCache, writes, apiVars, daoVars, cfgVars, extVars>>

\* clearCache
ClearCache(d) ==
    /\ daoCache' = [daoCache EXCEPT ![d] = NoCache]
    /\ cacheResp' = [op |-> "clear", dao |-> d, returned |-> {}]
    /\ UNCHANGED <<clock, settingsFile, writes, apiVars, daoVars, cfgVars, extVars>>

Tick ==
    /\ clock < MaxClock
    /\ clock' = clock + 1
    /\ cacheResp' = [op |-> "tick", dao |-> "none", returned |-> {}]
    /\ UNCHANGED <<settingsFile, daoCache, writes, apiVars, daoVars, cfgVars, extVars>>

NextCache ==
    \/ \E d \in DaoNames : DaoRead(d)
    \/ \E d \in DaoNames : \E late \in {0, 1} : DaoWrite(d, late)
    \/ ExternalWrite
    \/ \E state \in {"missing", "corrupt"} : ExternalDamage(state)
    \/ \E d \in DaoNames : ClearCache(d)
    \/ Tick

SpecCache == Init /\ [][NextCache]_vars

\* C10: a read through a DAO instance returns the contents the settings file
\* has at that moment, whoever wrote them last
C10_ReadReturnsFileContents ==
    (cacheResp.op = "load" /\ settingsFile.state = "ok")
        => cacheResp.returned = settingsFile.content

-----------------------------------------------------------------------------
(* UserConfigDaoImpl: the per-user configurations of the settings file.    *)

LangCfg == [k \in {"lang"} |-> "en"]

ConfigChoices == {Cfg("v0"), Cfg("v1"), LangCfg, EmptyMap}

ConfigUsers == {Alice, Bob}

\* get(username): settings.userConfigs?.[username]
UserConfigDaoGet(file, username) ==
    IF username \in DOMAIN file.userConfigs
    THEN Some(file.userConfigs[username])
    ELSE Absent

\* update(username, config): deepMerge over the current configuration (or {}),
\* stored and returned
UserConfigDaoUpdate(file, username, config) ==
    LET currentConfig == IF username \in DOMAIN file.userConfigs
                         THEN file.userConfigs[username]
                         ELSE EmptyMap
        updatedConfig == deepMerge(currentConfig, config)
    IN  [file   |-> [file EXCEPT
                        !.userConfigs = MapSet(file.userConfigs, username,
                                               updatedConfig)],
         result |-> updatedConfig]

\* delete(username): false when the user has no configuration
UserConfigDaoDelete(file, username) ==
    IF username \notin DOMAIN file.userConfigs
    THEN [file |-> file, result |-> FALSE]
    ELSE [file   |-> [file EXCEPT
                        !.userConfigs =
                            [u \in (DOMAIN file.userConfigs) \ {username} |->
                                file.userConfigs[u]]],
          result |-> TRUE]

\* reset(username): update(username, defaultConfig) with defaultConfig = {}
UserConfigDaoReset(file, username) ==
    UserConfigDaoUpdate(file, username, EmptyMap)

UserConfigGet(username) ==
    /\ opResp' = [op |-> "userConfig.get", username |-> username,
                  result |-> UserConfigDaoGet(store, username)]
    /\ UNCHANGED <<store, daoResp, apiVars, cfgVars, cacheVars, notOpVars>>

UserConfigUpdate(username, config) ==
    LET r == UserConfigDaoUpdate(store, username, config)
    IN  /\ store' = r.file
        /\ opResp' = [op |-> "userConfig.update", username |-> username,
                      result |-> r.result]
        /\ UNCHANGED <<daoResp, apiVars, cfgVars, cacheVars, notOpVars>>

UserConfigDelete(username) ==
    LET r == UserConfigDaoDelete(store, username)
    IN  /\ store' = r.file
        /\ opResp' = [op |-> "userConfig.delete", username |-> username,
                      result |-> r.result]
        /\ UNCHANGED <<daoResp, apiVars, cfgVars, cacheVars, notOpVars>>

UserConfigReset(username) ==
    LET r == UserConfigDaoReset(store, username)
    IN  /\ store' = r.file
        /\ opResp' = [op |-> "userConfig.reset", username |-> username,
                      result |-> r.result]
        /\ UNCHANGED <<daoResp, apiVars, cfgVars, cacheVars, notOpVars>>

NextUserConfig ==
    \/ \E u \in ConfigUsers : UserConfigGet(u)
    \/ \E u \in ConfigUsers : \E config \in ConfigChoices :
          UserConfigUpdate(u, config)
    \/ \E u \in ConfigUsers : UserConfigDelete(u)
    \/ \E u \in ConfigUsers : UserConfigReset(u)

SpecUserConfig == Init /\ [][NextUserConfig]_vars

\* C11: after reset(username) the user's configuration is the empty default
\* configuration, whatever was stored before, and reset returned that default
C11_ResetGivesDefault ==
    opResp.op = "userConfig.reset"
        => /\ opResp.result = EmptyMap
           /\ UserConfigDaoGet(store, opResp.username) = Some(EmptyMap)

-----------------------------------------------------------------------------
(* UserDaoImpl: credentials.  A password is a sequence of characters; a     *)
(* bcrypt hash is the version-and-cost prefix, the salt, and a digest that  *)
(* stands for the password it was computed from.                            *)

BcryptPrefix == "$2a$10$"

Salts == {"saltA", "saltB"}

PasswordChoices == {<<"p">>, <<"p", "1">>, <<"p", "2">>}

CredentialUsers == {AdminName, Alice, Bob}

\* bcrypt.hash(password, 10), with the salt bcrypt drew
bcryptHash(password, salt) == <<BcryptPrefix, salt>> \o password

\* bcrypt.compare(password, hash): hash again under the salt of the stored
\* hash; what is not a hash matches nothing
bcryptCompare(password, hash) ==
    /\ Len(hash) >= 2
    /\ hash[1] = BcryptPrefix
    /\ bcryptHash(password, hash[2]) = hash

UserDaoFindByUsername(users, username) ==
    IF HasUser(users, username)
    THEN Some(users[IndexOfUser(users, username)])
    ELSE Absent

UserDaoCreateWithHashedPassword(users, username, password, isAdmin, salt) ==
    IF HasUser(users, username) THEN Thrown(users)
    ELSE Saved(Append(users,
                      User(username, isAdmin, bcryptHash(password, salt))))

\* the mutant stores the new password as it was given
UserDaoUpdatePasswordPlain(users, username, newPassword, salt) ==
    LET existing == UserDaoFindByUsername(users, username)
        result == UserDaoUpdate(users, username,
                      [isAdmin  |-> existing.def /\ existing.val.isAdmin,
                       password |-> newPassword])
    IN  [list |-> result.list, result |-> result.wrote]

\* updatePassword: update(username, {password: hashedPassword}) !== null
UserDaoUpdatePassword(users, username, newPassword, salt) ==
    LET hashedPassword == bcryptHash(newPassword, salt)
        existing == UserDaoFindByUsername(users, username)
        result == UserDaoUpdate(users, username,
                      [isAdmin  |-> existing.def /\ existing.val.isAdmin,
                       password |-> hashedPassword])
    IN  [list |-> result.list, result |-> result.wrote]

UserDaoDelete(users, username) ==
    IF ~HasUser(users, username) THEN [list |-> users, result |-> FALSE]
    ELSE [list   |-> RemoveAt(users, IndexOfUser(users, username)),
          result |-> TRUE]

UserDaoValidateCredentials(users, username, password) ==
    LET user == UserDaoFindByUsername(users, username)
    IN  IF ~user.def THEN FALSE
        ELSE bcryptCompare(password, user.val.password)

\* the settings file holds hashes, as createWithHashedPassword writes them
HashedStore ==
    [InitialStore EXCEPT
        !.users = <<User(AdminName, TRUE, bcryptHash(<<"p">>, "saltA"))>>]

NoCredentialResp ==
    [op |-> "none", username |-> Undefined, password |-> << >>,
     threw |-> FALSE, result |-> FALSE]

CreateWithHashedPassword(username, password, isAdmin, salt) ==
    LET r == UserDaoCreateWithHashedPassword(store.users, username, password,
                                             isAdmin, salt)
    IN  /\ store' = [store EXCEPT !.users = r.list]
        /\ opResp' = [NoCredentialResp EXCEPT
                         !.op = "createWithHashedPassword",
                         !.username = username, !.password = password,
                         !.threw = r.threw, !.result = r.wrote]
        /\ UNCHANGED <<daoResp, apiVars, cfgVars, cacheVars, notOpVars>>

UpdatePassword(username, newPassword, salt) ==
    LET r == UserDaoUpdatePassword(store.users, username, newPassword, salt)
    IN  /\ store' = [store EXCEPT !.users = r.list]
        /\ opResp' = [NoCredentialResp EXCEPT
                         !.op = "updatePassword",
                         !.username = username, !.password = newPassword,
                         !.result = r.result]
        /\ UNCHANGED <<daoResp, apiVars, cfgVars, cacheVars, notOpVars>>

UserDelete(username) ==
    LET r == UserDaoDelete(store.users, username)
    IN  /\ store' = [store EXCEPT !.users = r.list]
        /\ opResp' = [NoCredentialResp EXCEPT
                         !.op = "delete", !.username = username,
                         !.result = r.result]
        /\ UNCHANGED <<daoResp, apiVars, cfgVars, cacheVars, notOpVars>>

ValidateCredentials(username, password) ==
    /\ opResp' = [NoCredentialResp EXCEPT
                     !.op = "validateCredentials",
                     !.username = username, !.password = password,
                     !.result = UserDaoValidateCredentials(store.users,
                                                           username, password)]
    /\ UNCHANGED <<store, daoResp, apiVars, cfgVars, cacheVars, notOpVars>>

InitUsers ==
    /\ ApiInit /\ CfgIdle /\ CacheInit /\ NotOpInit
    /\ store = HashedStore
    /\ daoResp = NoDaoResp
    /\ opResp = NoCredentialResp

NextUsers ==
    \/ \E u \in CredentialUsers : \E p \in PasswordChoices :
       \E salt \in Salts :
          CreateWithHashedPassword(u, p, FALSE, salt)
    \/ \E u \in CredentialUsers : \E p \in PasswordChoices :
       \E salt \in Salts :
          UpdatePassword(u, p, salt)
    \/ \E u \in CredentialUsers : UserDelete(u)
    \/ \E u \in CredentialUsers : \E p \in PasswordChoices :
          ValidateCredentials(u, p)

SpecUsers == InitUsers /\ [][NextUsers]_vars

\* the password stored for username validates exactly password
OnlyValidates(users, username, password) ==
    /\ \A q \in PasswordChoices :
          UserDaoValidateCredentials(users, username, q) <=> (q = password)
    /\ UserDaoFindByUsername(users, username).val.password # password

\* C12: credentials follow the password set last: after a successful
\* createWithHashedPassword(u, p) or updatePassword(u, p) exactly p validates
\* for u and the stored password is not p itself; creating an existing user
\* fails and changes nothing; after delete no password validates; no other
\* call changes what validates; a user that is not stored validates nothing
C12_CredentialsFollowLastPassword ==
    [][ LET call == opResp'
            u == call.username
        IN  /\ call.op = "createWithHashedPassword"
                  => /\ call.threw <=> HasUser(store.users, u)
                     /\ call.threw => store'.users = store.users
                     /\ ~call.threw
                           => OnlyValidates(store'.users, u, call.password)
            /\ (call.op = "updatePassword" /\ call.result)
                  => OnlyValidates(store'.users, u, call.password)
            /\ (call.op = "updatePassword" /\ ~call.result)
                  => store'.users = store.users
            /\ call.op = "delete"
                  => \A q \in PasswordChoices :
                        ~UserDaoValidateCredentials(store'.users, u, q)
            /\ call.op = "validateCredentials"
                  => /\ store'.users = store.users
                     /\ call.result =
                          UserDaoValidateCredentials(store.users, u,
                                                     call.password)
            /\ \A v \in CredentialUsers \ {u} : \A q \in PasswordChoices :
                  UserDaoValidateCredentials(store'.users, v, q)
                      = UserDaoValidateCredentials(store.users, v, q)
            /\ \A v \in CredentialUsers : \A q \in PasswordChoices :
                  ~HasUser(store'.users, v)
                      => ~UserDaoValidateCredentials(store'.users, v, q)
      ]_vars

\* a password set by updatePassword for a user created here has been
\* validated, and the password it replaced has been refused
C12_Witness ==
    /\ opResp.op = "validateCredentials"
    /\ opResp.username = Alice
    /\ opResp.password = <<"p", "1">>
    /\ ~opResp.result
    /\ UserDaoValidateCredentials(store.users, Alice, <<"p", "2">>)

-----------------------------------------------------------------------------
(* ServerDaoImpl: the enabled flag.                                         *)

ServerNames == {"s1", "s2"}

EnabledChoices == {"true", "false"}

\* what create and update are given: a configuration, its owner and its
\* enabled flag given or left out
ServerDataChoices ==
    {[Server(name, owner, command) EXCEPT !.enabled = enabled] :
        name \in ServerNames, owner \in {Undefined, Alice},
        command \in {"c0", "c1"}, enabled \in {Undefined, "false"}}

\* the mutant flips the flag instead of setting it
ServerDaoToggleEnabled(servers, name, enabled) ==
    LET flipped == IF HasName(servers, name)
                      /\ servers[IndexOfName(servers, name)].enabled = enabled
                   THEN (IF enabled = "true" THEN "false" ELSE "true")
                   ELSE enabled
        result == ServerDaoUpdate(servers, name,
                      [owner |-> Undefined, command |-> Undefined,
                       enabled |-> flipped])
    IN  [list |-> result.list, result |-> result.wrote]

\* setEnabled(name, enabled): update(name, {enabled}) !== null
ServerDaoSetEnabled(servers, name, enabled) ==
    LET result == ServerDaoUpdate(servers, name,
                      [owner |-> Undefined, command |-> Undefined,
                       enabled |-> enabled])
    IN  [list |-> result.list, result |-> result.wrote]

NoServerResp ==
    [op |-> "none", name |-> Undefined, enabled |-> Undefined,
     threw |-> FALSE, result |-> FALSE]

ServerCreate(data) ==
    LET r == ServerDaoCreate(store.mcpServers, data)
    IN  /\ store' = [store EXCEPT !.mcpServers = r.list]
        /\ opResp' = [NoServerResp EXCEPT
                         !.op = "create", !.name = data.name,
                         !.threw = r.threw, !.result = r.wrote]
        /\ UNCHANGED <<daoResp, apiVars, cfgVars, cacheVars, notOpVars>>

ServerUpdate(data) ==
    LET r == ServerDaoUpdate(store.mcpServers, data.name, data)
    IN  /\ store' = [store EXCEPT !.mcpServers = r.list]
        /\ opResp' = [NoServerResp EXCEPT
                         !.op = "update", !.name = data.name,
                         !.result = r.wrote]
        /\ UNCHANGED <<daoResp, apiVars, cfgVars, cacheVars, notOpVars>>

ServerDelete(name) ==
    LET r == ServerDaoDelete(store.mcpServers, name)
    IN  /\ store' = [store EXCEPT !.mcpServers = r.list]
        /\ opResp' = [NoServerResp EXCEPT
                         !.op = "delete", !.name = name, !.result = r.wrote]
        /\ UNCHANGED <<daoResp, apiVars, cfgVars, cacheVars, notOpVars>>

SetEnabled(name, enabled) ==
    LET r == ServerDaoSetEnabled(store.mcpServers, name, enabled)
    IN  /\ store' = [store EXCEPT !.mcpServers = r.list]
        /\ opResp' = [NoServerResp EXCEPT
                         !.op = "setEnabled", !.name = name,
                         !.enabled = enabled, !.result = r.result]
        /\ UNCHANGED <<daoResp, apiVars, cfgVars, cacheVars, notOpVars>>

InitServers ==
    /\ ApiInit /\ DaoInit /\ CfgIdle /\ CacheInit /\ NotOpInit
    /\ opResp = NoServerResp

NextServers ==
    \/ \E data \in ServerDataChoices : ServerCreate(data)
    \/ \E data \in ServerDataChoices : ServerUpdate(data)
    \/ \E name \in ServerNames : ServerDelete(name)
    \/ \E name \in ServerNames : \E enabled \in EnabledChoices :
          SetEnabled(name, enabled)

SpecServers == InitServers /\ [][NextServers]_vars

\* C13: right after setEnabled(name, true), a second setEnabled(name, true)
\* leaves every stored server as the first call left it, and both calls
\* report success when the server exists
C13_SetEnabledIdempotent ==
    (opResp.op = "setEnabled" /\ opResp.enabled = "true")
        => LET again == ServerDaoSetEnabled(store.mcpServers, opResp.name,
                                            "true")
           IN  /\ again.list = store.mcpServers
               /\ again.result = opResp.result
               /\ HasName(store.mcpServers, opResp.name)
                     => (opResp.result /\ again.result)

\* setEnabled("s1", true) has succeeded on a server that was disabled, next
\* to a server that stays disabled
C13_Witness ==
    /\ opResp.op = "setEnabled" /\ opResp.enabled = "true"
    /\ opResp.name = "s1" /\ opResp.result
    /\ HasName(store.mcpServers, "s1")
    /\ store.mcpServers[IndexOfName(store.mcpServers, "s1")].enabled = "true"
    /\ HasName(store.mcpServers, "s2")
    /\ store.mcpServers[IndexOfName(store.mcpServers, "s2")].enabled = "false"

-----------------------------------------------------------------------------
(* convertQueryParametersToTypes of the OpenAPI controller.  A string is a  *)
(* sequence of characters; a value carries its typeof tag.                  *)

MaxLen == 3          \* the longest string drawn from the alphabet

Digits == {"1", "2"}

Alphabet == Digits \cup {".", "-", "a", ",", " "}

RECURSIVE StringsUpTo(_)
StringsUpTo(n) ==
    IF n = 0 THEN {<< >>}
    ELSE LET shorter == StringsUpTo(n - 1)
         IN  shorter \cup {Append(s, c) : s \in shorter, c \in Alphabet}

StringChoices ==
    StringsUpTo(MaxLen)
        \cup {<<"t", "r", "u", "e">>, <<"T", "r", "u", "e">>,
              <<"f", "a", "l", "s", "e">>}

\* a number: sign, integer part, digits after the point
Num(neg, int, frac) == [nan |-> FALSE, neg |-> neg, int |-> int, frac |-> frac]

NaN == [nan |-> TRUE, neg |-> FALSE, int |-> 0, frac |-> << >>]

\* a value: its typeof tag t and, under the field of its kind, what it is
\* (s a string, n a number, b a boolean, items the strings of an array)
NoValue ==
    [t |-> Undefined, s |-> << >>, n |-> NaN, b |-> FALSE, items |-> << >>]
Str(s) == [NoValue EXCEPT !.t = "string", !.s = s]
NumberValue(n) == [NoValue EXCEPT !.t = "number", !.n = n]
BooleanValue(b) == [NoValue EXCEPT !.t = "boolean", !.b = b]
ArrayValue(items) == [NoValue EXCEPT !.t = "object", !.items = items]

DigitValue(c) == IF c = "1" THEN 1 ELSE 2

RECURSIVE DigitsValue(_)
DigitsValue(s) ==
    IF s = << >> THEN 0
    ELSE 10 * DigitsValue(SubSeq(s, 1, Len(s) - 1)) + DigitValue(s[Len(s)])

\* how many characters at the start of s are digits
DigitPrefixLen(s) ==
    CHOOSE n \in 0..Len(s) :
        /\ \A i \in 1..n : s[i] \in Digits
        /\ n = Len(s) \/ s[n + 1] \notin Digits

TrimStart(s) ==
    LET k == CHOOSE n \in 0..Len(s) :
                /\ \A i \in 1..n : s[i] = " "
                /\ n = Len(s) \/ s[n + 1] # " "
    IN  SubSeq(s, k + 1, Len(s))

TrimEnd(s) ==
    LET k == CHOOSE n \in 0..Len(s) :
                /\ \A i \in (n + 1)..Len(s) : s[i] = " "
                /\ n = 0 \/ s[n] # " "
    IN  SubSeq(s, 1, k)

\* String.prototype.trim
Trim(s) == TrimEnd(TrimStart(s))

HasSign(s) == s # << >> /\ s[1] \in {"-", "+"}

Unsigned(s) == IF HasSign(s) THEN Tail(s) ELSE s

\* parseInt(value, 10): leading white space, a sign, then the digits up to
\* the first character that is not a digit; NaN when there is no digit
parseInt(value) ==
    LET t == TrimStart(value)
        u == Unsigned(t)
        n == DigitPrefixLen(u)
    IN  IF n = 0 THEN NaN
        ELSE Num(HasSign(t) /\ t[1] = "-", DigitsValue(SubSeq(u, 1, n)), << >>)

\* parseFloat(value): leading white space, a sign, digits, a point and more
\* digits, up to the first character that does not fit; NaN when there is
\* no digit
parseFloat(value) ==
    LET t == TrimStart(value)
        u == Unsigned(t)
        n == DigitPrefixLen(u)
        afterInt == SubSeq(u, n + 1, Len(u))
        hasPoint == afterInt # << >> /\ afterInt[1] = "."
        afterPoint == IF hasPoint THEN Tail(afterInt) ELSE << >>
        m == DigitPrefixLen(afterPoint)
    IN  IF n = 0 /\ m = 0 THEN NaN
        ELSE Num(HasSign(t) /\ t[1] = "-", DigitsValue(SubSeq(u, 1, n)),
                 SubSeq(afterPoint, 1, m))

\* String.prototype.toLowerCase
toLowerCase(s) == [i \in 1..Len(s) |-> IF s[i] = "T" THEN "t" ELSE s[i]]

\* String.prototype.split(",")
RECURSIVE SplitComma(_)
SplitComma(s) ==
    IF ~Includes(s, ",") THEN <<s>>
    ELSE LET k == CHOOSE i \in 1..Len(s) :
                     s[i] = "," /\ \A j \in 1..(i - 1) : s[j] # ","
         IN  <<SubSeq(s, 1, k - 1)>> \o SplitComma(SubSeq(s, k + 1, Len(s)))

\* the schema of one property: its type, or not an object at all
PropDef(type) == [object |-> TRUE, type |-> type]
NotAnObject == [object |-> FALSE, type |-> Undefined]

\* the switch over propDef.type
ConvertValue(propType, value) ==
    CASE propType \in {"integer", "number"} ->
            IF value.t = "string"
            THEN LET numValue == IF propType = "integer"
                                 THEN parseInt(value.s)
                                 ELSE parseFloat(value.s)
                 IN  IF numValue.nan THEN value ELSE NumberValue(numValue)
            ELSE value
      [] propType = "boolean" ->
            IF value.t = "string"
            THEN BooleanValue(toLowerCase(value.s) = <<"t", "r", "u", "e">>
                              \/ value.s = <<"1">>)
            ELSE value
      [] propType = "array" ->
            IF value.t = "string" /\ Includes(value.s, ",")
            THEN LET parts == SplitComma(value.s)
                 IN  ArrayValue([i \in 1..Len(parts) |-> Trim(parts[i])])
            ELSE value
      [] OTHER -> value

\* the mutant leaves out a parameter the schema does not define
convertDefinedParametersOnly(queryParams, inputSchema) ==
    IF inputSchema.kind # "object" \/ ~inputSchema.properties.def
    THEN queryParams
    ELSE LET properties == inputSchema.properties.val
         IN  [key \in {k \in DOMAIN queryParams :
                          k \in DOMAIN properties /\ properties[k].object} |->
                 ConvertValue(properties[key].type, queryParams[key])]

convertQueryParametersToTypes(queryParams, inputSchema) ==
    IF inputSchema.kind # "object" \/ ~inputSchema.properties.def
    THEN queryParams
    ELSE LET properties == inputSchema.properties.val
         IN  [key \in DOMAIN queryParams |->
                 IF key \notin DOMAIN properties \/ ~properties[key].object
                 THEN queryParams[key]
                 ELSE ConvertValue(properties[key].type, queryParams[key])]

\* the values a parameter arrives with
ValueChoices ==
    {Str(s) : s \in StringChoices}
        \cup {NumberValue(Num(FALSE, 1, << >>)), BooleanValue(TRUE),
              ArrayValue(<< <<"1">>, <<"a">> >>)}

QueryParamChoices ==
    {EmptyMap}
        \cup {[k \in {"a"} |-> v] : v \in ValueChoices}
        \cup {[k \in {"a", "b"} |-> IF k = "a" THEN v ELSE w] :
                 v \in ValueChoices,
                 w \in {Str(<<"1", "a">>), BooleanValue(FALSE)}}

PropDefChoices ==
    {PropDef(type) : type \in {"integer", "number", "boolean", "array",
                               "string", Undefined}}
        \cup {NotAnObject}

SchemaChoices ==
    {NoSchema,
     [kind |-> "string", properties |-> Absent],
     [kind |-> "object", properties |-> Absent]}
        \cup {[kind |-> "object", properties |-> Some([k \in {"a"} |-> d])] :
                 d \in PropDefChoices}
        \cup {[kind |-> "object",
               properties |-> Some([k \in {"a", "b"} |->
                                      IF k = "a" THEN d ELSE PropDef("integer")])] :
                 d \in PropDefChoices}
        \cup {[kind |-> "object", properties |-> Some(EmptyMap)]}

ConvInit ==
    /\ convIn \in [queryParams : QueryParamChoices, inputSchema : SchemaChoices]
    /\ convOut = Absent

Convert ==
    /\ ~convOut.def
    /\ convOut' = Some(convertQueryParametersToTypes(convIn.queryParams,
                                                     convIn.inputSchema))
    /\ UNCHANGED <<convIn, coreVars, notConvVars>>

InitConv ==
    ApiInit /\ DaoInit /\ CfgIdle /\ CacheInit /\ NotConvInit /\ ConvInit

NextConv == Convert

SpecConv == InitConv /\ [][NextConv]_vars

\* the string is a decimal numeral: white space around it aside, a sign,
\* then digits with at most one point among them
IsNumeral(s) ==
    LET u == Unsigned(Trim(s))
        n == DigitPrefixLen(u)
        rest == SubSeq(u, n + 1, Len(u))
    IN  \/ n > 0 /\ rest = << >>
        \/ /\ rest # << >> /\ rest[1] = "."
           /\ \A i \in 2..Len(rest) : rest[i] \in Digits
           /\ n > 0 \/ Len(rest) > 1

\* the number a numeral denotes
NumberOf(s) ==
    LET t == Trim(s)
        u == Unsigned(t)
        n == DigitPrefixLen(u)
    IN  Num(HasSign(t) /\ t[1] = "-", DigitsValue(SubSeq(u, 1, n)),
            SubSeq(u, n + 2, Len(u)))

\* the schema gives the parameter one of these types
TypedAs(key, types) ==
    /\ convIn.inputSchema.kind = "object"
    /\ convIn.inputSchema.properties.def
    /\ key \in DOMAIN convIn.inputSchema.properties.val
    /\ convIn.inputSchema.properties.val[key].object
    /\ convIn.inputSchema.properties.val[key].type \in types

\* C14: a string value of an integer or number parameter becomes the number
\* it denotes, and stays the original string when it is not a valid number;
\* a value that is not a string is passed through unchanged.  (A numeral
\* with a point given for an integer parameter is left open.)
C14_NumbersConverted ==
    convOut.def
        => \A key \in DOMAIN convIn.queryParams :
              TypedAs(key, {"integer", "number"})
                 => LET value == convIn.queryParams[key]
                        out == convOut.val[key]
                    IN  IF value.t # "string" THEN out = value
                        ELSE IF ~IsNumeral(value.s) THEN out = value
                        ELSE (TypedAs(key, {"number"})
                                 \/ ~Includes(value.s, "."))
                                => out = NumberValue(NumberOf(value.s))

\* C15: the result has exactly the keys of the query parameters; a parameter
\* the schema does not define keeps its value, and without a schema or
\* without properties every parameter keeps its value
C15_KeysKept ==
    convOut.def
        => /\ DOMAIN convOut.val = DOMAIN convIn.queryParams
           /\ \A key \in DOMAIN convIn.queryParams :
                 ~TypedAs(key, {"integer", "number", "boolean", "array",
                                "string", Undefined})
                    => convOut.val[key] = convIn.queryParams[key]
           /\ (convIn.inputSchema.kind # "object"
                  \/ ~convIn.inputSchema.properties.def)
                 => convOut.val = convIn.queryParams

\* a defined parameter has been converted next to one the schema does not
\* define, which kept its value
C15_Witness ==
    /\ convOut.def
    /\ DOMAIN convIn.queryParams = {"a", "b"}
    /\ TypedAs("a", {"integer"})
    /\ convIn.queryParams["a"] = Str(<<"1", "2">>)
    /\ convOut.val["a"] = NumberValue(Num(FALSE, 12, << >>))
    /\ ~TypedAs("b", {"integer"})
    /\ convOut.val["b"] = Str(<<"1", "a">>)

-----------------------------------------------------------------------------
(* The Connection Supervisor's publication of a server's capabilities.     *)
(* The handshake lists the capabilities one by one into the connection's    *)
(* own set; the Registry section of the server is swapped in afterwards.    *)

\* the local names discovered so far are all the server declared
DiscoveryComplete(i) ==
    Range(discovery[i].staged) = discovery[i].declared

\* Disconnected -> Connecting: open() and the handshake begin
StartDiscovery(i, declared) ==
    /\ serverInfos[i].status # "connected"
    /\ discovery[i].phase = "idle"
    /\ discovery' = [discovery EXCEPT
                        ![i].phase = "discovering",
                        ![i].declared = declared,
                        ![i].staged = << >>]
    /\ serverInfos' = [serverInfos EXCEPT ![i].status = "connecting"]
    /\ resp' = NoResponse
    /\ UNCHANGED <<groups, daoVars, cfgVars, cacheVars, notSupervisorVars>>

\* the mutant writes each discovered capability into the Registry at once
DiscoverNextPublishing(i) ==
    /\ discovery[i].phase = "discovering"
    /\ ~DiscoveryComplete(i)
    /\ LET remaining == SelectSeq(UpstreamTools(serverInfos[i].name),
                           LAMBDA l : l \in discovery[i].declared
                                        /\ l \notin Range(discovery[i].staged))
           staged == Append(discovery[i].staged, Head(remaining))
       IN  /\ discovery' = [discovery EXCEPT ![i].staged = staged]
           /\ serverInfos' = [serverInfos EXCEPT
                                 ![i].tools = Discovered(serverInfos[i].name,
                                                         Range(staged))]
    /\ resp' = NoResponse
    /\ UNCHANGED <<groups, daoVars, cfgVars, cacheVars, notSupervisorVars>>

\* capability discovery reads the next capability the server declares
DiscoverNext(i) ==
    /\ discovery[i].phase = "discovering"
    /\ ~DiscoveryComplete(i)
    /\ LET remaining == SelectSeq(UpstreamTools(serverInfos[i].name),
                           LAMBDA l : l \in discovery[i].declared
                                        /\ l \notin Range(discovery[i].staged))
       IN  discovery' = [discovery EXCEPT
                            ![i].staged = Append(@, Head(remaining))]
    /\ UNCHANGED <<apiVars, daoVars, cfgVars, cacheVars, notSupervisorVars>>

\* the channel is lost while discovery is under way: nothing of the server
\* is published
DiscoveryFails(i) ==
    /\ discovery[i].phase = "discovering"
    /\ discovery' = [discovery EXCEPT
                        ![i].phase = "idle",
                        ![i].failedAfter = Len(discovery[i].staged),
                        ![i].staged = << >>,
                        ![i].published = {}]
    /\ serverInfos' = [serverInfos EXCEPT
                          ![i].status = "disconnected", ![i].tools = << >>]
    /\ resp' = NoResponse
    /\ UNCHANGED <<groups, daoVars, cfgVars, cacheVars, notSupervisorVars>>

\* Connecting -> Connected: the server's Registry section is swapped in
Publish(i) ==
    /\ discovery[i].phase = "discovering"
    /\ DiscoveryComplete(i)
    /\ discovery' = [discovery EXCEPT
                        ![i].phase = "idle",
                        ![i].staged = << >>,
                        ![i].published = discovery[i].declared]
    /\ serverInfos' = [serverInfos EXCEPT
                          ![i].status = "connected",
                          ![i].tools = Discovered(serverInfos[i].name,
                                                  discovery[i].declared)]
    /\ resp' = NoResponse
    /\ UNCHANGED <<groups, daoVars, cfgVars, cacheVars, notSupervisorVars>>

\* Connected -> Disconnected, with the last known capabilities kept
ConnectionLost(i) ==
    /\ discovery[i].phase = "idle"
    /\ Disconnect(i)

NextSupervisor ==
    \/ \E i \in ServerIndex :
         \E declared \in SUBSET Range(UpstreamTools(DeclaredServers[i])) :
            StartDiscovery(i, declared)
    \/ \E i \in ServerIndex : DiscoverNext(i)
    \/ \E i \in ServerIndex : DiscoveryFails(i)
    \/ \E i \in ServerIndex : Publish(i)
    \/ \E i \in ServerIndex : ConnectionLost(i)
    \/ \E i \in ServerIndex : \E p \in 1..2 : \E b \in BOOLEAN :
            SetToolEnabled(i, p, b)

SpecSupervisor == Init /\ [][NextSupervisor]_vars

\* the namespaced keys the Registry shows for server i
PublishedKeys(i) ==
    {serverInfos[i].tools[p].name : p \in 1..Len(serverInfos[i].tools)}

\* the namespaced keys of a set of local names of server i
KeysOf(i, locals) ==
    {NamespacedKey(serverInfos[i].name, l) : l \in locals}

\* C16: for every server the Registry shows either every capability the
\* server declared at its last completed discovery or none of them, at any
\* moment and so once the Supervisor has converged, also after a discovery
\* that failed midway
C16_NoPartialPublication ==
    \A i \in ServerIndex :
        \/ PublishedKeys(i) = {}
        \/ PublishedKeys(i) = KeysOf(i, discovery[i].published)

\* the Supervisor has converged: one server's discovery failed after its
\* first capability and nothing of it is shown, the other's full set is
C16_Witness ==
    /\ \A i \in ServerIndex : discovery[i].phase = "idle"
    /\ discovery[1].failedAfter = 1
    /\ discovery[1].declared = {ToolBC, ToolC}
    /\ PublishedKeys(1) = {}
    /\ serverInfos[2].status = "connected"
    /\ PublishedKeys(2) = KeysOf(2, {ToolC})

-----------------------------------------------------------------------------
(* Properties of the saves of an administrator.                            *)

\* the stored server carries every field value the submitted one gives
CarriesGiven(stored, given) ==
    /\ stored.name = given.name
    /\ given.owner # Undefined => stored.owner = given.owner
    /\ given.command # Undefined => stored.command = given.command
    /\ given.enabled # Undefined => stored.enabled = given.enabled

\* C17: after saveSettings(S) of an administrator has returned true, the
\* stored servers are those of S.mcpServers: each server named in S is stored
\* with every field value S gives, and no other server is stored
C17_AdminSaveStoresServers ==
    (/\ daoResp.op = "saveSettings"
     /\ daoResp.ok
     /\ daoResp.user = AdminUser
     /\ daoResp.settings.mcpServers.def)
        => LET submitted == daoResp.settings.mcpServers.val
           IN  /\ \A i \in 1..Len(submitted) :
                     \E j \in 1..Len(store.mcpServers) :
                        CarriesGiven(store.mcpServers[j], submitted[i])
               /\ \A j \in 1..Len(store.mcpServers) :
                     HasName(submitted, store.mcpServers[j].name)

-----------------------------------------------------------------------------
(* The DAO instances of one DaoConfigService on their own: no other process *)
(* touches the settings file.                                               *)

NextInstances ==
    \/ \E d \in DaoNames : DaoRead(d)
    \/ \E d \in DaoNames : \E late \in {0, 1} : DaoWrite(d, late)
    \/ \E d \in DaoNames : ClearCache(d)
    \/ Tick

SpecInstances == Init /\ [][NextInstances]_vars

\* C18: a write through one DAO instance changes only its own section: every
\* change already in the file, whichever instance wrote it, is still in the
\* file after the write
C18_WriteKeepsOtherSections ==
    [][cacheResp'.op = "save"
          => settingsFile.content \subseteq settingsFile'.content]_vars

-----------------------------------------------------------------------------
(* ServerProvider of the dashboard: polling of /servers.  provider holds    *)
(* the React state (servers, isInitialLoading, refreshKey), the refs         *)
(* (intervalRef, attemptsRef), auth.isAuthenticated and the /servers         *)
(* requests under way, counted by the function that awaits them.  An event   *)
(* is taken together with the renders and effects it causes.                 *)

maxAttempts == 60       \* CONFIG.startup.maxAttempts
MaxInflight == 3        \* /servers requests under way at one time
MaxRefreshKey == 3      \* refreshKey is not counted beyond this

Inflight(p) == p.inflight["initial"] + p.inflight["normal"]

clearTimer(p) == [p EXCEPT !.intervalRef = "none"]

\* apiGet('/servers') is sent by fetchInitialData or by fetchServers
Send(p, kind) == [p EXCEPT !.inflight[kind] = @ + 1]

startNormalPolling(p, immediate) ==
    LET cleared == clearTimer(p)
        fetched == IF immediate THEN Send(cleared, "normal") ELSE cleared
    IN  [fetched EXCEPT !.intervalRef = "normal"]

\* the polling effect, after the cleanup of its previous run
PollingEffect(p) ==
    LET cleaned == clearTimer(p)
    IN  IF ~cleaned.isAuthenticated THEN cleaned
        ELSE LET reset == IF cleaned.refreshKey > 0
                          THEN [cleaned EXCEPT !.attemptsRef = 0]
                          ELSE cleaned
             IN  IF reset.isInitialLoading
                 THEN [Send(clearTimer(reset), "initial") EXCEPT
                          !.intervalRef = "initial"]
                 ELSE startNormalPolling(reset, TRUE)

\* the render that follows state updates: the polling effect runs again
\* when refreshKey or isInitialLoading has changed
Rerender(before, after) ==
    IF after.refreshKey # before.refreshKey
          \/ after.isInitialLoading # before.isInitialLoading
    THEN PollingEffect(after)
    ELSE after

\* the effect on auth.isAuthenticated
AuthEffect(p) ==
    IF p.isAuthenticated
    THEN Rerender(p, [p EXCEPT !.refreshKey = @ + 1])
    ELSE LET cleared == clearTimer(p)
         IN  Rerender(cleared, [cleared EXCEPT !.servers = "empty",
                                               !.isInitialLoading = FALSE])

\* fetchInitialData after apiGet has returned (ok: a list of servers,
\* invalid: another format) or thrown (error)
fetchInitialData(p, outcome) ==
    LET received == [p EXCEPT !.inflight["initial"] = @ - 1]
    IN  IF outcome # "error"
        THEN LET polling == startNormalPolling(
                                [received EXCEPT
                                    !.servers = IF outcome = "ok" THEN "data"
                                                ELSE "empty"],
                                FALSE)
             IN  Rerender(polling, [polling EXCEPT !.isInitialLoading = FALSE])
        ELSE LET counted == [received EXCEPT !.attemptsRef = @ + 1]
             IN  IF counted.attemptsRef >= maxAttempts
                 THEN LET polling == startNormalPolling(clearTimer(counted),
                                                        TRUE)
                      IN  Rerender(polling,
                                   [polling EXCEPT !.isInitialLoading = FALSE])
                 ELSE counted

\* fetchServers of startNormalPolling after apiGet has returned or thrown
fetchServers(p, outcome) ==
    LET received == [p EXCEPT !.inflight["normal"] = @ - 1]
    IN  IF outcome = "error" THEN received
        ELSE [received EXCEPT
                 !.servers = IF outcome = "ok" THEN "data" ELSE "empty"]

\* the provider is mounted: the first render and its effects
Mount(authenticated) ==
    /\ ~provider.mounted
    /\ LET first == [provider EXCEPT !.mounted = TRUE,
                                     !.isAuthenticated = authenticated]
           polled == IF authenticated THEN PollingEffect(first) ELSE first
       IN  provider' = AuthEffect(polled)
    /\ UNCHANGED <<coreVars, notProviderVars>>

Login ==
    /\ provider.mounted /\ ~provider.isAuthenticated
    /\ provider.refreshKey < MaxRefreshKey
    /\ LET after == AuthEffect([provider EXCEPT !.isAuthenticated = TRUE])
       IN  /\ Inflight(after) <= MaxInflight
           /\ provider' = after
    /\ UNCHANGED <<coreVars, notProviderVars>>

Logout ==
    /\ provider.mounted /\ provider.isAuthenticated
    /\ provider' = AuthEffect([provider EXCEPT !.isAuthenticated = FALSE])
    /\ UNCHANGED <<coreVars, notProviderVars>>

\* setInterval calls fetchInitialData or fetchServers
TimerFires ==
    /\ provider.intervalRef # "none"
    /\ Inflight(provider) < MaxInflight
    /\ provider' = Send(provider, provider.intervalRef)
    /\ UNCHANGED <<coreVars, notProviderVars>>

\* a /servers request comes back
Response(kind, outcome) ==
    /\ provider.inflight[kind] > 0
    /\ LET after == IF kind = "initial"
                    THEN fetchInitialData(provider, outcome)
                    ELSE fetchServers(provider, outcome)
       IN  /\ Inflight(after) <= MaxInflight
           /\ provider' = after
    /\ UNCHANGED <<coreVars, notProviderVars>>

\* triggerRefresh
TriggerRefresh ==
    /\ provider.mounted
    /\ provider.refreshKey < MaxRefreshKey
    /\ LET cleared == clearTimer(provider)
           restarted == IF cleared.isInitialLoading
                        THEN [cleared EXCEPT !.attemptsRef = 0]
                        ELSE cleared
           after == Rerender(restarted,
                             [restarted EXCEPT !.refreshKey = @ + 1])
       IN  /\ Inflight(after) <= MaxInflight
           /\ provider' = after
    /\ UNCHANGED <<coreVars, notProviderVars>>

NextProvider ==
    \/ \E authenticated \in BOOLEAN : Mount(authenticated)
    \/ Login
    \/ Logout
    \/ TimerFires
    \/ \E kind \in {"initial", "normal"} :
       \E outcome \in {"ok", "invalid", "error"} : Response(kind, outcome)
    \/ TriggerRefresh

SpecProvider == Init /\ [][NextProvider]_vars

\* C19: whenever the user is not authenticated, no polling timer is running
\* and the server list is empty, also after a /servers request sent before
\* the logout has come back
C19_LoggedOutIsQuiet ==
    (provider.mounted /\ ~provider.isAuthenticated)
        => /\ provider.intervalRef = "none"
           /\ provider.servers = "empty"

-----------------------------------------------------------------------------
(* initMiddlewares: the way of one request through the middleware stack.    *)
(* A path is the sequence of its segments; httpRequest.ran lists the         *)
(* components that have run for the request, in order.                      *)

basePath == <<"base">>

PathChoices ==
    {<<"base", "api", "auth", "login">>,
     <<"base", "api", "auth", "login", "">>,
     <<"base", "api", "auth", "register">>,
     <<"base", "api", "auth">>,
     <<"base", "api", "auth", "login", "x">>,
     <<"base", "api", "servers">>,
     <<"base", "api", "groups", "g">>,
     <<"base", "API", "servers">>,
     <<"base", "api">>,
     <<"base", "sse">>,
     <<"base", "messages">>,
     <<"base", "g", "messages">>,
     <<"base", "assets">>}

\* routing is not case sensitive
LowerCase(segment) == IF segment = "API" THEN "api" ELSE segment

StartsWith(path, prefix) ==
    /\ Len(path) >= Len(prefix)
    /\ \A i \in 1..Len(prefix) : LowerCase(path[i]) = prefix[i]

\* app.use(`${config.basePath}/api`, ...) applies to the request
UnderApi(path) == StartsWith(path, basePath \o <<"api">>)

\* req.path inside the mounted middleware
MountedPath(path) == SubSeq(path, Len(basePath) + 2, Len(path))

\* the paths whose body express.json() parses
ParsesJson(path) ==
    LET rest == SubSeq(path, Len(basePath) + 1, Len(path))
    IN  ~(\/ path = basePath \o <<"sse">>
          \/ (Len(path) > Len(basePath) + 1
                 /\ SubSeq(path, 1, Len(basePath) + 1) = basePath \o <<"sse">>)
          \/ path = basePath \o <<"messages">>
          \/ (Len(rest) = 2 /\ rest[2] = "messages")
          \/ (Len(rest) >= 2 /\ rest[2] = "sse"))

\* the mutant lets every path under /auth pass
apiGuardAuthPrefix(path) ==
    IF MountedPath(path) # << >> /\ MountedPath(path)[1] = "auth"
    THEN "routes"
    ELSE "auth"

\* the middleware mounted on <basePath>/api: where the request goes next
apiGuard(path) ==
    IF MountedPath(path) = <<"auth", "login">> THEN "routes" ELSE "auth"

Ran(component) == [httpRequest EXCEPT !.ran = Append(@, component)]

Arrive(path) ==
    /\ httpRequest.stage \in {"none", "done"}
    /\ httpRequest' = [NoRequest EXCEPT !.stage = "i18n", !.path = path]
    /\ UNCHANGED <<coreVars, notRequestVars>>

I18n ==
    /\ httpRequest.stage = "i18n"
    /\ httpRequest' = [Ran("i18n") EXCEPT !.stage = "json"]
    /\ UNCHANGED <<coreVars, notRequestVars>>

\* express.json() calls next(), or next(err) for a body it cannot parse
JsonBody(parsed) ==
    /\ httpRequest.stage = "json"
    /\ parsed \/ ParsesJson(httpRequest.path)
    /\ httpRequest' =
          [Ran("json") EXCEPT
              !.stage = IF ~parsed THEN "errorHandler"
                        ELSE IF UnderApi(httpRequest.path) THEN "guard"
                        ELSE "routes"]
    /\ UNCHANGED <<coreVars, notRequestVars>>

ApiGuard ==
    /\ httpRequest.stage = "guard"
    /\ httpRequest' = [Ran("guard") EXCEPT !.stage = apiGuard(httpRequest.path)]
    /\ UNCHANGED <<coreVars, notRequestVars>>

\* auth calls its callback without or with an error, or answers the request
\* itself
Auth(outcome) ==
    /\ httpRequest.stage = "auth"
    /\ httpRequest' =
          [Ran("auth") EXCEPT
              !.auth = outcome,
              !.stage = CASE outcome = "next" -> "userContext"
                          [] outcome = "error" -> "errorHandler"
                          [] OTHER -> "done"]
    /\ UNCHANGED <<coreVars, notRequestVars>>

\* userContextMiddleware(req, res, next)
UserContext(failed) ==
    /\ httpRequest.stage = "userContext"
    /\ httpRequest' =
          [Ran("userContext") EXCEPT
              !.stage = IF failed THEN "errorHandler" ELSE "routes"]
    /\ UNCHANGED <<coreVars, notRequestVars>>

\* the routes registered after initMiddlewares
Routes ==
    /\ httpRequest.stage = "routes"
    /\ httpRequest' = [Ran("handler") EXCEPT !.stage = "done"]
    /\ UNCHANGED <<coreVars, notRequestVars>>

ErrorHandler ==
    /\ httpRequest.stage = "errorHandler"
    /\ httpRequest' = [Ran("errorHandler") EXCEPT !.stage = "done"]
    /\ UNCHANGED <<coreVars, notRequestVars>>

NextRequest ==
    \/ \E path \in PathChoices : Arrive(path)
    \/ I18n
    \/ \E parsed \in BOOLEAN : JsonBody(parsed)
    \/ ApiGuard
    \/ \E outcome \in {"next", "error", "responded"} : Auth(outcome)
    \/ \E failed \in BOOLEAN : UserContext(failed)
    \/ Routes
    \/ ErrorHandler

SpecRequest == Init /\ [][NextRequest]_vars

HasRun(component) == Includes(httpRequest.ran, component)

\* component a has run, and before component b if that has run
RanBefore(a, b) ==
    \E i \in 1..Len(httpRequest.ran) :
        /\ httpRequest.ran[i] = a
        /\ \A j \in 1..i : httpRequest.ran[j] # b

\* C20: for a request under <basePath>/api other than /auth/login, the
\* user-context middleware and the later handlers run only after
\* authentication has completed without error; when authentication reports
\* an error the request ends in the error handler and the user-context
\* middleware does not run; only /auth/login reaches a handler unauthenticated
C20_AuthBeforeUserContext ==
    (UnderApi(httpRequest.path)
        /\ MountedPath(httpRequest.path) # <<"auth", "login">>)
        => /\ HasRun("userContext")
                 => (RanBefore("auth", "userContext")
                        /\ httpRequest.auth = "next")
           /\ HasRun("handler")
                 => (/\ RanBefore("auth", "handler")
                     /\ RanBefore("userContext", "handler")
                     /\ httpRequest.auth = "next")
           /\ httpRequest.auth = "error"
                 => (/\ ~HasRun("userContext") /\ ~HasRun("handler")
                     /\ httpRequest.stage \in {"errorHandler", "done"}
                     /\ httpRequest.stage = "done" => HasRun("errorHandler"))

\* authentication has reported an error for /api/auth/register and the
\* request has ended in the error handler
C20_Witness ==
    /\ httpRequest.path = <<"base", "api", "auth", "register">>
    /\ httpRequest.auth = "error"
    /\ httpRequest.stage = "done"
    /\ httpRequest.ran = <<"i18n", "json", "guard", "auth", "errorHandler">>

-----------------------------------------------------------------------------
(* GroupDaoImpl.addServerToGroup, run by two callers on one DAO instance.  *)
(* The file system calls are synchronous, so a call gives way to another   *)
(* only at an await; one action is the code between two awaits.  The DAO's *)
(* settingsCache is one object that every call reads and changes in place: *)
(* groupDao.cache is its groups array, groupDao.file what writeFileSync    *)
(* has stored.  update replaces the group object of the array and never    *)
(* changes it, so the group that findById returned keeps its servers.      *)

GroupIdChoices == {"g1", "g9"}
MemberNameChoices == {"s1", "s2", "s3"}

\* group.servers.some(server => server === serverName)
serverExists(servers, serverName) ==
    \E i \in 1..Len(servers) : servers[i] = serverName

\* addServerToGroup is called: findById, getAll and loadSettings run up to
\* the first await; loadSettings returns the cached settings
AddServerToGroup(c, groupId, serverName) ==
    /\ groupDao.call[c].pc = "idle"
    /\ groupDao' = [groupDao EXCEPT !.call[c] =
                       [NoGroupCall EXCEPT !.pc = "findById",
                                           !.groupId = groupId,
                                           !.serverName = serverName]]
    /\ UNCHANGED <<coreVars, notGroupCallVars>>

\* findById finds the group; addServerToGroup returns false when there is
\* none and true when the server is a member, and calls update otherwise
FindById(c) ==
    LET call == groupDao.call[c]
        list == groupDao.cache
    IN  /\ call.pc = "findById"
        /\ groupDao' =
             IF ~HasId(list, call.groupId)
             THEN [groupDao EXCEPT !.call[c].pc = "done",
                                   !.call[c].returned = "false"]
             ELSE LET group == list[IndexOfId(list, call.groupId)]
                  IN  IF serverExists(group.servers, call.serverName)
                      THEN [groupDao EXCEPT !.call[c].pc = "done",
                                            !.call[c].returned = "true"]
                      ELSE [groupDao EXCEPT
                               !.call[c].pc = "update",
                               !.call[c].updatedServers =
                                   Append(group.servers, call.serverName)]
        /\ UNCHANGED <<coreVars, notGroupCallVars>>

\* update: groups[index] = {...groups[index], servers}, then saveAll is
\* called and awaits loadSettings
GroupUpdate(c) ==
    LET call == groupDao.call[c]
        list == groupDao.cache
    IN  /\ call.pc = "update"
        /\ groupDao' =
             IF ~HasId(list, call.groupId)
             THEN [groupDao EXCEPT !.call[c].pc = "done",
                                   !.call[c].returned = "false"]
             ELSE [groupDao EXCEPT
                      !.cache[IndexOfId(list, call.groupId)].servers =
                          call.updatedServers,
                      !.call[c].pc = "saveAll"]
        /\ UNCHANGED <<coreVars, notGroupCallVars>>

\* saveAll: settings.groups = groups; saveSettings writes the file
GroupSaveAll(c) ==
    /\ groupDao.call[c].pc = "saveAll"
    /\ groupDao' = [groupDao EXCEPT !.file = groupDao.cache,
                                    !.call[c].pc = "saved"]
    /\ UNCHANGED <<coreVars, notGroupCallVars>>

\* update returns the updated group; addServerToGroup returns result !== null
GroupCallReturns(c) ==
    /\ groupDao.call[c].pc = "saved"
    /\ groupDao' = [groupDao EXCEPT !.call[c].pc = "done",
                                    !.call[c].returned = "true"]
    /\ UNCHANGED <<coreVars, notGroupCallVars>>

NextGroupCalls ==
    \/ \E c \in {1, 2}, groupId \in GroupIdChoices,
          serverName \in MemberNameChoices :
          AddServerToGroup(c, groupId, serverName)
    \/ \E c \in {1, 2} : FindById(c)
    \/ \E c \in {1, 2} : GroupUpdate(c)
    \/ \E c \in {1, 2} : GroupSaveAll(c)
    \/ \E c \in {1, 2} : GroupCallReturns(c)

SpecGroupCalls == Init /\ [][NextGroupCalls]_vars

\* C21: when two addServerToGroup calls on one existing group, for two
\* different servers, have both returned true, both servers are members of
\* the group in the settings file.
C21_BothAddsTakeEffect ==
    LET a == groupDao.call[1]
        b == groupDao.call[2]
    IN  (/\ a.pc = "done" /\ a.returned = "true"
         /\ b.pc = "done" /\ b.returned = "true"
         /\ a.groupId = b.groupId
         /\ a.serverName # b.serverName
         /\ HasId(groupDao.file, a.groupId))
        => LET group == groupDao.file[IndexOfId(groupDao.file, a.groupId)]
           IN  /\ serverExists(group.servers, a.serverName)
               /\ serverExists(group.servers, b.serverName)

-----------------------------------------------------------------------------
\* C22: a DaoConfigService.saveSettings call that returns false leaves the
\* persisted settings as they were before the call.
C22_FailedSaveWritesNothing ==
    [][(daoResp'.op = "saveSettings" /\ ~daoResp'.ok) => store' = store]_vars

-----------------------------------------------------------------------------
(* JsonFileBaseDao.loadSettings after a failure.  A file can also be made  *)
(* unreadable and readable again (its permissions, its mount) without any  *)
(* change of its contents or of its mtime.                                 *)

\* another process takes away the permission to read the file
ExternalLock ==
    /\ settingsFile.state = "ok"
    /\ settingsFile' = [settingsFile EXCEPT !.state = "unreadable"]
    /\ cacheResp' = [op |-> "external", dao |-> "none", returned |-> {}]
    /\ UNCHANGED <<clock, daoCache, writes, apiVars, daoVars, cfgVars, extVars>>

\* another process gives the permission back
ExternalUnlock ==
    /\ settingsFile.state = "unreadable"
    /\ settingsFile' = [settingsFile EXCEPT !.state = "ok"]
    /\ cacheResp' = [op |-> "external", dao |-> "none", returned |-> {}]
    /\ UNCHANGED <<clock, daoCache, writes, apiVars, daoVars, cfgVars, extVars>>

NextRecovery ==
    \/ \E d \in DaoNames : DaoRead(d)
    \/ ExternalWrite
    \/ \E state \in {"missing", "corrupt"} : ExternalDamage(state)
    \/ ExternalLock
    \/ ExternalUnlock
    \/ \E d \in DaoNames : ClearCache(d)
    \/ Tick

SpecRecovery == Init /\ [][NextRecovery]_vars

\* the DAO's cache holds the default settings that a failed loadSettings
\* left there (the contents of a readable file always include a write)
CachesDefaults(d) ==
    daoCache[d].settingsCache.def /\ daoCache[d].settingsCache.val = {}

\* C23: when a DAO caches the defaults of a failed loadSettings and the file
\* is readable, the DAO's next loadSettings returns the contents of the file.
C23_RecoversAfterFailure ==
    [][\A d \in DaoNames :
          (/\ CachesDefaults(d)
           /\ settingsFile.state = "ok"
           /\ cacheResp'.op = "load" /\ cacheResp'.dao = d)
          => cacheResp'.returned = settingsFile.content]_vars

-----------------------------------------------------------------------------
(* GET /api/openapi/group/:name.json.  A group can carry the name of a     *)
(* server, so the group is renamed among a name of its own and the name of *)
(* a declared server.                                                      *)

GroupNameChoices == {GroupG, ServerA}
RequestedNames == {GroupG, GroupN, <<"1">>, ServerA, ServerAB}

\* GroupDaoImpl.update(id, {name}): the group is renamed
RenameGroup(gi, name) ==
    /\ groups' = [groups EXCEPT ![gi].name = name]
    /\ resp' = NoResponse
    /\ UNCHANGED <<serverInfos, daoVars, cfgVars, cacheVars, extVars>>

\* the handler with the two lookups in the other order
getGroupOpenAPISpecServerFirst(name, includeDisabled) ==
    LET options == [includeDisabledTools |-> includeDisabled,
                    groupFilter |-> name,
                    serverFilter |-> NoServerFilter]
    IN  IF Includes(getAvailableServers, name) \/ getGroupByIdOrName(name) = << >>
        THEN [getServerOpenAPISpec(name, includeDisabled) EXCEPT
                 !.handler = "getGroupOpenAPISpec"]
        ELSE [NoResponse EXCEPT
                 !.handler = "getGroupOpenAPISpec", !.status = 200,
                 !.name = name, !.options = options,
                 !.doc = generateOpenAPISpec(options)]

\* getGroupOpenAPISpec: the response it sends, its own or the one that
\* getServerOpenAPISpec(req, res) sends for it
getGroupOpenAPISpec(name, includeDisabled) ==
    LET options == [includeDisabledTools |-> includeDisabled,
                    groupFilter |-> name,
                    serverFilter |-> NoServerFilter]
    IN  IF getGroupByIdOrName(name) = << >>
        THEN [getServerOpenAPISpec(name, includeDisabled) EXCEPT
                 !.handler = "getGroupOpenAPISpec"]
        ELSE [NoResponse EXCEPT
                 !.handler = "getGroupOpenAPISpec", !.status = 200,
                 !.name = name, !.options = options,
                 !.doc = generateOpenAPISpec(options)]

GetGroupOpenAPISpec(name, includeDisabled) ==
    /\ resp' = getGroupOpenAPISpec(name, includeDisabled)
    /\ UNCHANGED <<serverInfos, groups, daoVars, cfgVars, cacheVars, extVars>>

NextGroupSpec ==
    \/ \E i \in ServerIndex :
            Connect(i, Range(UpstreamTools(DeclaredServers[i])))
    \/ \E i \in ServerIndex : Disconnect(i)
    \/ \E i \in ServerIndex : \E p \in 1..2 : \E b \in BOOLEAN :
            SetToolEnabled(i, p, b)
    \/ \E servers \in NextMemberLists(groups[1].servers) : UpdateServers(1, servers)
    \/ \E name \in GroupNameChoices : RenameGroup(1, name)
    \/ \E name \in RequestedNames : \E includeDisabled \in BOOLEAN :
          GetGroupOpenAPISpec(name, includeDisabled)

SpecGroupSpec == Init /\ [][NextGroupSpec]_vars

\* a group has the key as its id or as its name
IsGroup(key) ==
    \E k \in 1..Len(groups) : groups[k].id = key \/ groups[k].name = key

\* the document produced for the group / for the server of that name, with
\* the includeDisabled choice of the request
GroupDocument(name, includeDisabled) ==
    generateOpenAPISpec([includeDisabledTools |-> includeDisabled,
                         groupFilter |-> name,
                         serverFilter |-> NoServerFilter])
ServerDocument(name, includeDisabled) ==
    generateOpenAPISpec([includeDisabledTools |-> includeDisabled,
                         groupFilter |-> << >>,
                         serverFilter |-> ServerFilter(<<name>>)])

\* C24: the group specification endpoint answers with the group's document
\* when a group has the requested name as id or name, also when a server has
\* that name; otherwise with the server's document when a server of that
\* name is connected; otherwise with 404.
C24_GroupBeforeServer ==
    resp.handler = "getGroupOpenAPISpec"
        => LET includeDisabled == resp.options.includeDisabledTools
           IN  IF IsGroup(resp.name)
               THEN /\ resp.status = 200
                    /\ resp.doc = GroupDocument(resp.name, includeDisabled)
               ELSE IF IsConnected(resp.name)
               THEN /\ resp.status = 200
                    /\ resp.doc = ServerDocument(resp.name, includeDisabled)
               ELSE resp.status = 404

\* a group and a connected server share the requested name, and the group's
\* document differs from the server's
C24_Witness ==
    /\ resp.handler = "getGroupOpenAPISpec"
    /\ resp.status = 200
    /\ IsGroup(resp.name)
    /\ IsConnected(resp.name)
    /\ GroupDocument(resp.name, resp.options.includeDisabledTools)
         # ServerDocument(resp.name, resp.options.includeDisabledTools)

====
